---- MODULE Spec2Model ----
(***************************************************************************)
(* Run/job supervision of the evaluation dashboard (src/ui/app.py): the    *)
(* run registry, the per-job supervisor thread, the progress parser, the   *)
(* status poll and the cancel handler, with the global registry lock made  *)
(* explicit.                                                               *)
(***************************************************************************)
EXTENDS Integers, Sequences, FiniteSets, TLC

\* ------------------------------------------------------------------ bounds
MaxRuns == 2            \* run identifiers the registrar may allocate
MaxJobs == 2            \* jobs (and supervisor threads) over all runs
MaxModels == 2          \* entries of one request's model list
MaxLines == 1           \* output lines one subprocess writes (concurrent model)
MaxParserLines == 2     \* output lines fed to the parser (parser model)
MaxCount == 2           \* largest number carried by a progress record
MaxValueLines == 2      \* output lines fed to the parser (value model)
MaxStatusJobs == 3      \* jobs of the run polled in the aggregate model
MaxStreamLines == 2     \* output lines the child of a /stream request writes
MaxTailLines == 202     \* output lines fed to the parser (tail-buffer model)
MaxMixedLines == 2      \* leading lines that may also be JSON non-objects
MaxSamples == 10        \* largest total_samples of the sample-record model
MaxSnapshotCount == 20  \* largest stored count of the snapshot model

MAX_LOG_LINES == 200

RunIds == 1..MaxRuns
JobIds == 1..MaxJobs

\* ------------------------------------------------------------------ values
\* Python None / an absent dict key, and a present value.
None == <<>>
Some(x) == <<x>>
Val(o) == o[1]

\* A JSON scalar keeps its type: <<"int", n>>.
JInt(n) == <<"int", n>>
JStr(s) == <<"str", s>>
IsInt(v) == v # None /\ v[1] = "int"
IntOf(v) == v[2]

\* time.time(): the model keeps only that a timestamp was taken.
_now == Some("t")

\* ------------------------------------------------------------------ threads
NoThread == <<"none", 0>>
Sup(j) == <<"sup", j>>
Registrar == <<"http", 1>>
Client == <<"http", 2>>

\* ------------------------------------------------------------------ output lines
\* A line is its text (not JSON, a JSON non-object, or a JSON object given by
\* its parse tree) and whether it ends in whitespace (the newline).
NoResults == [total_samples |-> None, completed_samples |-> None]
NoSection == [total |-> None, completed |-> None, index |-> None]
NoPayload ==
    [results |-> None, progress |-> None, sample |-> None,
     event |-> None, completed |-> None]

TextLine(s) == [kind |-> "text", text |-> s, payload |-> NoPayload, ws |-> TRUE]
ScalarLine(s) == [kind |-> "scalar", text |-> s, payload |-> NoPayload, ws |-> TRUE]
ObjectLine(p) == [kind |-> "object", text |-> "", payload |-> p, ws |-> TRUE]

\* raw_line.rstrip()
rstrip(raw_line) == [raw_line EXCEPT !.ws = FALSE]

\* json.loads(raw_line): <<"error">> for JSONDecodeError, else the value.
json_loads(raw_line) ==
    IF raw_line.kind = "text" THEN <<"error">>
    ELSE IF raw_line.kind = "scalar" THEN <<"scalar">>
    ELSE <<"dict", raw_line.payload>>

CompletionEvents == {"sample_complete", "sample_success", "sample"}

\* ------------------------------------------------------------------ progress parser
\* Mutant: a total is stored only while none is known (first write wins).
SetTotal_FirstWins(job, total) ==
    IF total # None /\ job.total_samples = None
    THEN [job EXCEPT !.total_samples = total]
    ELSE job

\* if total is not None: job["total_samples"] = total
SetTotal(job, total) ==
    IF total # None THEN [job EXCEPT !.total_samples = total] ELSE job

SetCompleted(job, completed) ==
    IF completed # None THEN [job EXCEPT !.samples_completed = completed] ELSE job

\* `completed > job.get("samples_completed", 0)` after isinstance(completed, int);
\* against a stored value that is not a number the comparison raises (see
\* TypeErrorIn) and nothing is stored.
RaiseCompleted(job, completed) ==
    IF IsInt(completed) /\ IsInt(job.samples_completed)
          /\ IntOf(completed) > IntOf(job.samples_completed)
    THEN [job EXCEPT !.samples_completed = completed]
    ELSE job

ApplyResultsSection(job, payload) ==
    IF payload.results = None THEN job
    ELSE LET results == Val(payload.results)
         IN  SetCompleted(SetTotal(job, results.total_samples),
                          results.completed_samples)

ApplyProgressSection(job, payload) ==
    IF payload.progress = None THEN job
    ELSE LET progress == Val(payload.progress)
         IN  SetCompleted(SetTotal(job, progress.total), progress.completed)

\* Mutant: index is taken as one-based (candidate = index).
ApplySampleSection_OneBased(job, payload) ==
    IF payload.sample = None THEN job
    ELSE LET sample == Val(payload.sample)
             j1 == SetTotal(job, sample.total)
             j2 == RaiseCompleted(j1, sample.completed)
             candidate == IF IsInt(sample.index)
                          THEN JInt(IntOf(sample.index))
                          ELSE None
         IN  RaiseCompleted(j2, candidate)

\* lines 192-205
ApplySampleSection(job, payload) ==
    IF payload.sample = None THEN job
    ELSE LET sample == Val(payload.sample)
             j1 == SetTotal(job, sample.total)
             j2 == RaiseCompleted(j1, sample.completed)
             candidate == IF IsInt(sample.index)
                          THEN JInt(IntOf(sample.index) + 1)
                          ELSE None
         IN  RaiseCompleted(j2, candidate)

ApplyEventSection(job, payload) ==
    IF payload.event # None /\ Val(payload.event) \in CompletionEvents
    THEN RaiseCompleted(job, payload.completed)
    ELSE job

\* lines 198-210: a comparison `int > job["samples_completed"]` is evaluated
\* while the stored value is not a number, which raises TypeError. The stored
\* value is whatever the results and progress sections left there.
TypeErrorIn(job, payload) ==
    LET stored == ApplyProgressSection(ApplyResultsSection(job, payload),
                                       payload).samples_completed
    IN  /\ ~IsInt(stored)
        /\ \/ /\ payload.sample # None
              /\ IsInt(Val(payload.sample).completed) \/ IsInt(Val(payload.sample).index)
           \/ /\ payload.event # None
              /\ Val(payload.event) \in CompletionEvents
              /\ IsInt(payload.completed)

_apply_results(job, payload) ==
    ApplyEventSection(
        ApplySampleSection(
            ApplyProgressSection(
                ApplyResultsSection(job, payload), payload), payload), payload)

\* Mutant: a deque without maxlen.
DequeAppend_Unbounded(tail, x) == Append(tail, x)

\* deque(maxlen=MAX_LOG_LINES).append
DequeAppend(tail, x) ==
    LET t == Append(tail, x)
    IN  IF Len(t) > MAX_LOG_LINES THEN SubSeq(t, 2, Len(t)) ELSE t

_handle_progress(job, raw_line) ==
    LET j1 == [job EXCEPT !.last_update = _now,
                          !.log_tail = DequeAppend(@, rstrip(raw_line))]
        parsed == json_loads(raw_line)
    IN  IF parsed[1] = "dict" THEN _apply_results(j1, parsed[2]) ELSE j1

\* ------------------------------------------------------------------ snapshot
\* A float that is a ratio of two integers is kept as <<numerator, denominator>>.
\* Mutant: the ratio is returned as computed, without the two range tests.
_progress_ratio_Unclamped(completed, total) ==
    IF total = None \/ IntOf(total) = 0 THEN None
    ELSE Some(<<IntOf(completed), IntOf(total)>>)

\* _progress_ratio: None if total is None or 0, else completed / total clamped
\* to [0, 1].
_progress_ratio(completed, total) ==
    IF total = None \/ IntOf(total) = 0 THEN None
    ELSE LET c == IntOf(completed)
             t == IntOf(total)
         IN  IF (c < 0 /\ t > 0) \/ (c > 0 /\ t < 0) THEN Some(<<0, 1>>)
             ELSE IF (t > 0 /\ c > t) \/ (t < 0 /\ c < t) THEN Some(<<1, 1>>)
             ELSE Some(<<IF c < 0 THEN 0 - c ELSE c, IF t < 0 THEN 0 - t ELSE t>>)

\* Mutant: the remaining count is not tested before the multiplication.
_estimate_remaining_Unclamped(job, now) ==
    LET completed == IntOf(job.samples_completed)
        total == job.total_samples
        started_at == job.started_at
        end_point == IF job.finished_at # None /\ Val(job.finished_at) # 0
                     THEN Val(job.finished_at) ELSE now
    IN  IF completed = 0 THEN None
        ELSE IF total = None \/ IntOf(total) = 0 THEN None
        ELSE IF started_at = None \/ Val(started_at) = 0 THEN None
        ELSE IF end_point - Val(started_at) <= 0 THEN None
        ELSE Some(<<(IntOf(total) - completed) * (end_point - Val(started_at)),
                    completed>>)

\* _estimate_remaining at clock reading now: None, or the seconds left as
\* <<numerator, denominator>>.
_estimate_remaining(job, now) ==
    LET completed == IntOf(job.samples_completed)
        total == job.total_samples
        started_at == job.started_at
        end_point == IF job.finished_at # None /\ Val(job.finished_at) # 0
                     THEN Val(job.finished_at) ELSE now
    IN  IF completed = 0 THEN None
        ELSE IF total = None \/ IntOf(total) = 0 THEN None
        ELSE IF started_at = None \/ Val(started_at) = 0 THEN None
        ELSE IF end_point - Val(started_at) <= 0 THEN None
        ELSE IF IntOf(total) - completed <= 0 THEN Some(<<0, 1>>)
        ELSE Some(<<(IntOf(total) - completed) * (end_point - Val(started_at)),
                    completed>>)

\* round(ratio * 100, 2), in hundredths of a percent (100.0 is 10000).
RoundPercent(ratio) == (2 * 10000 * ratio[1] + ratio[2]) \div (2 * ratio[2])

\* _snapshot_job: the fields of the snapshot that depend on the job alone.
_snapshot_job(job) ==
    LET ratio == _progress_ratio(job.samples_completed, job.total_samples)
    IN  [job_id |-> job.job_id, model |-> job.model, status |-> job.status,
         samples_completed |-> job.samples_completed,
         total_samples |-> job.total_samples,
         progress_percent |-> IF ratio # None THEN Some(RoundPercent(Val(ratio)))
                              ELSE None,
         error |-> job.error, returncode |-> job.returncode]

\* ------------------------------------------------------------------ state
VARIABLES
    RUNS_REGISTRY,   \* run_id -> [task, models: job_id -> job]
    REGISTRY_LOCK,   \* the thread inside `with REGISTRY_LOCK`, or NoThread
    sup,             \* job_id -> locals and position of its supervisor thread
    proc,            \* job_id -> the subprocess of the job
    reg,             \* locals and position of the create_run request thread
    cli,             \* locals and position of the status/cancel request thread
    cancelled_running, \* runs cancelled while two jobs ran and none was terminal
    stream           \* the legacy /stream request: child, reader thread, queue, events

vars == <<RUNS_REGISTRY, REGISTRY_LOCK, sup, proc, reg, cli, cancelled_running, stream>>

Terminal == {"complete", "failed", "cancelled"}
Statuses == {"queued", "running", "cancelling"} \cup Terminal

\* The job dict built by _register_run.
NewJob(job_id, model_name) ==
    [job_id |-> job_id, model |-> model_name, status |-> "queued",
     samples_completed |-> JInt(0), total_samples |-> None, error |-> None,
     started_at |-> None, finished_at |-> None, process |-> None,
     cancel_requested |-> FALSE, returncode |-> None, log_tail |-> <<>>,
     thread |-> None, last_update |-> None]

NewSup ==
    [pc |-> "unstarted", run_id |-> 0, command |-> <<>>, raw_line |-> None,
     return_code |-> None, exc |-> None, eof |-> FALSE]

NewProc == [state |-> "none", returncode |-> None, signalled |-> FALSE, written |-> 0]

IdleReg == [pc |-> "idle", run_id |-> 0, task |-> "", models |-> <<>>, i |-> 0,
            job_id |-> 0, response |-> None]

IdleCli == [pc |-> "idle", run_id |-> 0]

\* No /stream request has been made: no child, no reader thread, an empty queue.
NoStream ==
    [pc |-> "idle", child |-> "none", returncode |-> None, written |-> 0,
     pipe |-> <<>>, reader |-> "none", line |-> None, queue |-> <<>>,
     events |-> <<>>]

Init ==
    /\ RUNS_REGISTRY = <<>>
    /\ REGISTRY_LOCK = NoThread
    /\ sup = [j \in JobIds |-> NewSup]
    /\ proc = [j \in JobIds |-> NewProc]
    /\ reg = IdleReg
    /\ cli = IdleCli
    /\ cancelled_running = {}
    /\ stream = NoStream

\* ------------------------------------------------------------------ registry access
HasJob(run_id, job_id) ==
    /\ run_id \in DOMAIN RUNS_REGISTRY
    /\ job_id \in DOMAIN RUNS_REGISTRY[run_id].models

JobOf(run_id, job_id) == RUNS_REGISTRY[run_id].models[job_id]

\* Mutant: the supervisor's write lands on every job of the run.
SetJob_WholeRun(run_id, job_id, job) ==
    [RUNS_REGISTRY EXCEPT ![run_id].models =
        [k \in DOMAIN @ |-> [job EXCEPT !.job_id = k]]]

\* job = run["models"].get(job_id); job[...] = ...
SetJob(run_id, job_id, job) ==
    [RUNS_REGISTRY EXCEPT ![run_id].models[job_id] = job]

Acquire(t) == REGISTRY_LOCK = NoThread /\ REGISTRY_LOCK' = t
Release(t) == REGISTRY_LOCK = t /\ REGISTRY_LOCK' = NoThread

\* str(exc) and f"Exited with code {return_code}"
ExceptionText(name) == <<name>>
ExitedWithCode(return_code) == <<"Exited with code ", return_code>>

SpawnErrors == {"FileNotFoundError"}
ReadErrors == {"UnicodeDecodeError"}
NaturalExitCodes == {0, 1}
\* Popen.returncode of a child ended by SIGTERM/SIGKILL is minus the signal.
SignalExitCodes == {0 - 15}

\* ------------------------------------------------------------------ subprocess
\* The child exits by itself (it may also never do so).
ProcExit(j, code) ==
    /\ proc[j].state = "alive"
    /\ proc' = [proc EXCEPT ![j].state = "exited", ![j].returncode = Some(code),
                            ![j].signalled = FALSE]
    /\ UNCHANGED <<RUNS_REGISTRY, REGISTRY_LOCK, sup, reg, cli, cancelled_running, stream>>

\* The child dies of the signal cancel_run sent.
ProcKilled(j, code) ==
    /\ proc[j].state = "alive"
    /\ proc[j].signalled
    /\ proc' = [proc EXCEPT ![j].state = "exited", ![j].returncode = Some(code),
                            ![j].signalled = FALSE]
    /\ UNCHANGED <<RUNS_REGISTRY, REGISTRY_LOCK, sup, reg, cli, cancelled_running, stream>>

\* ------------------------------------------------------------------ _run_inspect_job
SupGoto(j, pc) == sup' = [sup EXCEPT ![j].pc = pc]

\* with REGISTRY_LOCK: (line 276)
SupStartLock(j) ==
    /\ sup[j].pc = "start"
    /\ Acquire(Sup(j))
    /\ SupGoto(j, "start_cs")
    /\ UNCHANGED <<RUNS_REGISTRY, proc, reg, cli, cancelled_running, stream>>

SupStartBody(j) ==
    /\ sup[j].pc = "start_cs"
    /\ Release(Sup(j))
    /\ IF HasJob(sup[j].run_id, j)
       THEN /\ RUNS_REGISTRY' =
                 SetJob(sup[j].run_id, j,
                        [JobOf(sup[j].run_id, j) EXCEPT !.status = "running",
                                                        !.started_at = _now])
            /\ SupGoto(j, "spawn")
       ELSE /\ UNCHANGED RUNS_REGISTRY
            /\ SupGoto(j, "done")
    /\ UNCHANGED <<proc, reg, cli, cancelled_running, stream>>

\* subprocess.Popen(...) outside the lock: the child starts, or Popen raises.
SupSpawn(j) ==
    /\ sup[j].pc = "spawn"
    /\ proc' = [proc EXCEPT ![j].state = "alive"]
    /\ SupGoto(j, "store")
    /\ UNCHANGED <<RUNS_REGISTRY, REGISTRY_LOCK, reg, cli, cancelled_running, stream>>

SupSpawnRaise(j, e) ==
    /\ sup[j].pc = "spawn"
    /\ sup' = [sup EXCEPT ![j].pc = "except", ![j].exc = Some(ExceptionText(e))]
    /\ UNCHANGED <<RUNS_REGISTRY, REGISTRY_LOCK, proc, reg, cli, cancelled_running, stream>>

\* with REGISTRY_LOCK: job["process"] = process (line 303)
SupStoreLock(j) ==
    /\ sup[j].pc = "store"
    /\ Acquire(Sup(j))
    /\ SupGoto(j, "store_cs")
    /\ UNCHANGED <<RUNS_REGISTRY, proc, reg, cli, cancelled_running, stream>>

SupStoreBody(j) ==
    /\ sup[j].pc = "store_cs"
    /\ Release(Sup(j))
    /\ RUNS_REGISTRY' =
         IF HasJob(sup[j].run_id, j)
         THEN SetJob(sup[j].run_id, j,
                     [JobOf(sup[j].run_id, j) EXCEPT !.process = Some(j)])
         ELSE RUNS_REGISTRY
    /\ SupGoto(j, "read")
    /\ UNCHANGED <<proc, reg, cli, cancelled_running, stream>>

\* stream.readline() outside the lock: a line the child wrote, ...
SupReadLine(j, raw_line) ==
    /\ sup[j].pc = "read"
    /\ proc[j].state \in {"alive", "exited"}
    /\ proc' = [proc EXCEPT ![j].written = @ + 1]
    /\ sup' = [sup EXCEPT ![j].pc = "line", ![j].raw_line = Some(raw_line)]
    /\ UNCHANGED <<RUNS_REGISTRY, REGISTRY_LOCK, reg, cli, cancelled_running, stream>>

\* ... "" at end-of-file once the child has exited (stream.close() follows), ...
SupReadEOF(j) ==
    /\ sup[j].pc = "read"
    /\ proc[j].state = "exited"
    /\ sup' = [sup EXCEPT ![j].pc = "wait", ![j].eof = TRUE]
    /\ UNCHANGED <<RUNS_REGISTRY, REGISTRY_LOCK, proc, reg, cli, cancelled_running, stream>>

\* ... or an exception of the text decoder.
SupReadRaise(j, e) ==
    /\ sup[j].pc = "read"
    /\ proc[j].state \in {"alive", "exited"}
    /\ sup' = [sup EXCEPT ![j].pc = "except", ![j].exc = Some(ExceptionText(e))]
    /\ UNCHANGED <<RUNS_REGISTRY, REGISTRY_LOCK, proc, reg, cli, cancelled_running, stream>>

\* with REGISTRY_LOCK: (line 315)
SupLineLock(j) ==
    /\ sup[j].pc = "line"
    /\ Acquire(Sup(j))
    /\ SupGoto(j, "line_cs")
    /\ UNCHANGED <<RUNS_REGISTRY, proc, reg, cli, cancelled_running, stream>>

\* Mutant: the read loop runs inside the `with` block, so the next readline is
\* made with the lock still held.
LineRelease_Held(j) == REGISTRY_LOCK = Sup(j) /\ UNCHANGED REGISTRY_LOCK

\* The `with` block of the read loop ends before the next readline (line 324).
LineRelease(j) == Release(Sup(j))

\* Mutant: the line is handed to the parser before the flag is looked at.
LineStep_ParseFirst(job, raw_line) ==
    <<_handle_progress(job, raw_line),
      IF job.cancel_requested THEN "wait" ELSE "read", None>>

\* lines 322-324: the job after the line, where the loop goes and the
\* exception raised, if any: break on the cancellation flag, else
\* _handle_progress and the next readline; a TypeError raised by the parser
\* leaves the loop for the handler of line 326 with what was stored so far.
LineStep(job, raw_line) ==
    IF job.cancel_requested THEN <<job, "wait", None>>
    ELSE IF json_loads(raw_line)[1] = "dict" /\ TypeErrorIn(job, json_loads(raw_line)[2])
    THEN <<_handle_progress(job, raw_line), "except", Some(ExceptionText("TypeError"))>>
    ELSE <<_handle_progress(job, raw_line), "read", None>>

\* lines 316-324
SupLineBody(j) ==
    /\ sup[j].pc = "line_cs"
    /\ LineRelease(j)
    /\ IF ~HasJob(sup[j].run_id, j)
       THEN /\ UNCHANGED RUNS_REGISTRY
            /\ SupGoto(j, "read")
       ELSE LET step == LineStep(JobOf(sup[j].run_id, j), Val(sup[j].raw_line))
            IN  /\ RUNS_REGISTRY' = SetJob(sup[j].run_id, j, step[1])
                /\ sup' = [sup EXCEPT ![j].pc = step[2], ![j].exc = step[3]]
    /\ UNCHANGED <<proc, reg, cli, cancelled_running, stream>>

\* stream.close(); return_code = process.wait() blocks until the child exits.
SupWait(j) ==
    /\ sup[j].pc = "wait"
    /\ proc[j].state = "exited"
    /\ sup' = [sup EXCEPT ![j].pc = "final", ![j].return_code = proc[j].returncode]
    /\ UNCHANGED <<RUNS_REGISTRY, REGISTRY_LOCK, proc, reg, cli, cancelled_running, stream>>

\* except Exception: with REGISTRY_LOCK: (line 333)
SupExceptLock(j) ==
    /\ sup[j].pc = "except"
    /\ Acquire(Sup(j))
    /\ SupGoto(j, "except_cs")
    /\ UNCHANGED <<RUNS_REGISTRY, proc, reg, cli, cancelled_running, stream>>

\* Mutant: the handler marks the job failed without recording the message.
ExceptJob_Silent(job, exc) ==
    [job EXCEPT !.status = "failed", !.finished_at = _now, !.process = None]

\* lines 340-343
ExceptJob(job, exc) ==
    [job EXCEPT !.status = "failed", !.error = exc,
                !.finished_at = _now, !.process = None]

SupExceptBody(j) ==
    /\ sup[j].pc = "except_cs"
    /\ Release(Sup(j))
    /\ RUNS_REGISTRY' =
         IF HasJob(sup[j].run_id, j)
         THEN SetJob(sup[j].run_id, j,
                     ExceptJob(JobOf(sup[j].run_id, j), sup[j].exc))
         ELSE RUNS_REGISTRY
    /\ SupGoto(j, "done")
    /\ UNCHANGED <<proc, reg, cli, cancelled_running, stream>>

\* with REGISTRY_LOCK: (line 346)
SupFinalLock(j) ==
    /\ sup[j].pc = "final"
    /\ Acquire(Sup(j))
    /\ SupGoto(j, "final_cs")
    /\ UNCHANGED <<RUNS_REGISTRY, proc, reg, cli, cancelled_running, stream>>

\* Mutant: the exit code is looked at before the cancellation flag.
FinalJob_CodeFirst(job, return_code) ==
    LET j1 == [job EXCEPT !.process = None, !.returncode = return_code,
                          !.finished_at = _now]
    IN  IF Val(return_code) = 0 THEN [j1 EXCEPT !.status = "complete"]
        ELSE IF j1.cancel_requested THEN [j1 EXCEPT !.status = "cancelled"]
        ELSE [j1 EXCEPT !.status = "failed",
                        !.error = Some(ExitedWithCode(Val(return_code)))]

\* Mutant: the subprocess handle is left on the job.
FinalJob_KeepsHandle(job, return_code) ==
    LET j1 == [job EXCEPT !.returncode = return_code, !.finished_at = _now]
    IN  IF j1.cancel_requested THEN [j1 EXCEPT !.status = "cancelled"]
        ELSE IF Val(return_code) = 0 THEN [j1 EXCEPT !.status = "complete"]
        ELSE [j1 EXCEPT !.status = "failed",
                        !.error = Some(ExitedWithCode(Val(return_code)))]

\* lines 353-368
\* Mutant: the final block records the exit code and leaves the status alone.
FinalJob_ExitCodeOnly(job, return_code) ==
    [job EXCEPT !.process = None, !.returncode = return_code, !.finished_at = _now]

FinalJob(job, return_code) ==
    LET j1 == [job EXCEPT !.process = None, !.returncode = return_code,
                          !.finished_at = _now]
    IN  IF j1.cancel_requested THEN [j1 EXCEPT !.status = "cancelled"]
        ELSE IF Val(return_code) = 0 THEN [j1 EXCEPT !.status = "complete"]
        ELSE [j1 EXCEPT !.status = "failed",
                        !.error = Some(ExitedWithCode(Val(return_code)))]

SupFinalBody(j) ==
    /\ sup[j].pc = "final_cs"
    /\ Release(Sup(j))
    /\ RUNS_REGISTRY' =
         IF HasJob(sup[j].run_id, j)
         THEN SetJob(sup[j].run_id, j,
                     FinalJob(JobOf(sup[j].run_id, j), sup[j].return_code))
         ELSE RUNS_REGISTRY
    /\ SupGoto(j, "done")
    /\ UNCHANGED <<proc, reg, cli, cancelled_running, stream>>

\* ------------------------------------------------------------------ _register_run
TASK_FILES == {"telemath", "teleqna", "telelogs"}

TASK_ALIASES(task_name) ==
    CASE task_name = "telecom_bench" -> "telemath"
      [] task_name = "teleqna_bench" -> "teleqna"
      [] task_name = "telelogs_bench" -> "telelogs"
      [] OTHER -> task_name

\* Mutant: the resolved name is returned without the membership test.
_resolve_task_name_Unchecked(task_name) == <<"ok", TASK_ALIASES(task_name)>>

\* _resolve_task_name: <<"ok", resolved>> or <<"ValueError", message>>
_resolve_task_name(task_name) ==
    LET resolved == TASK_ALIASES(task_name)
    IN  IF resolved \notin TASK_FILES
        THEN <<"ValueError", <<"Unsupported task: ", task_name>>>>
        ELSE <<"ok", resolved>>

\* ------------------------------------------------------------------ _build_command
\* `if value:` on a JSON scalar or an absent key, and str(value).
Truthy(v) == v # None /\ v # JInt(0) /\ v # JStr("")
str(v) == IF v[1] = "str" THEN v[2] ELSE ToString(v[2])

INSPECT_BASE_CMD == <<"inspect">>

\* TASK_FILES[resolved_task] (the name was resolved: no other key is looked up)
TaskFile(resolved_task) ==
    CASE resolved_task = "telemath" -> "benchmarks/telemath/telemath.py"
      [] resolved_task = "teleqna" -> "benchmarks/teleqna/teleqna.py"
      [] resolved_task = "telelogs" -> "benchmarks/telelogs/telelogs.py"
      [] OTHER -> ""

\* Mutant: the difficulty parameter is passed to every task.
DifficultyFlag_AnyTask(resolved_task, options) ==
    IF Truthy(options.difficulty) /\ options.difficulty # JStr("full")
    THEN <<"-T", "difficulty=" \o str(options.difficulty)>>
    ELSE <<>>

\* lines 249-251
DifficultyFlag(resolved_task, options) ==
    IF /\ Truthy(options.difficulty)
       /\ resolved_task = "telemath"
       /\ options.difficulty # JStr("full")
    THEN <<"-T", "difficulty=" \o str(options.difficulty)>>
    ELSE <<>>

\* lines 253-263: if value: cmd.extend([flag, str(value)])
ValueFlag(flag, value) == IF Truthy(value) THEN <<flag, str(value)>> ELSE <<>>

\* Mutant: the temperature is tested for absence only.
TemperatureFlag_NotNone(options) ==
    IF options.temperature # None
    THEN <<"--temperature", str(options.temperature)>>
    ELSE <<>>

\* lines 265-267
TemperatureFlag(options) ==
    IF options.temperature # None /\ options.temperature # JStr("")
    THEN <<"--temperature", str(options.temperature)>>
    ELSE <<>>

_build_command(task_name, model, options) ==
    LET resolved_task == _resolve_task_name(task_name)[2]
    IN  INSPECT_BASE_CMD
          \o <<"eval", TaskFile(resolved_task), "--display", "log",
               "--log-level", "info", "--log-level-transcript", "info",
               "--log-format", "json", "--model", model>>
          \o DifficultyFlag(resolved_task, options)
          \o ValueFlag("--limit", options.limit)
          \o ValueFlag("--max-connections", options.max_connections)
          \o ValueFlag("--max-tokens", options.max_tokens)
          \o TemperatureFlag(options)

\* payload.get("task", "telemath")
RequestedTask(task) == IF task = None THEN "telemath" ELSE Val(task)

NoOptions ==
    [difficulty |-> None, limit |-> None, max_connections |-> None,
     max_tokens |-> None, temperature |-> None]

\* The requests the models send: task absent, an alias, or unknown; a model list
\* whose entries name a model or carry an empty name.
RequestTasks == {None, Some("telecom_bench"), Some("nosuchtask")}
ModelNames == {"", "m"}
ModelLists == UNION {[1..n -> ModelNames] : n \in 0..MaxModels}
\* The requests create_run accepts and turns into one job per entry.
ValidTasks == {None, Some("telecom_bench")}
ValidModelLists == UNION {[1..n -> {"m"}] : n \in 1..MaxModels}

AllJobs == UNION {DOMAIN RUNS_REGISTRY[r].models : r \in DOMAIN RUNS_REGISTRY}
Named(models) == {k \in 1..Len(models) : models[k] # ""}

\* uuid.uuid4().hex: an identifier nobody holds yet.
FreshRunId == Cardinality(DOMAIN RUNS_REGISTRY) + 1
FreshJobId == Cardinality(AllJobs) + 1

Response(code, error, body) == Some([code |-> code, error |-> error, body |-> body])

\* Mutant: the model list is not tested for emptiness.
RegisterError_AnyList(task, models) ==
    LET r == _resolve_task_name(RequestedTask(task))
    IN  IF r[1] # "ok" THEN Some(r[2]) ELSE None

\* The ValueError of _register_run (lines 373, 377), or None.
RegisterError(task, models) ==
    LET r == _resolve_task_name(RequestedTask(task))
    IN  IF r[1] # "ok" THEN Some(r[2])
        ELSE IF Len(models) = 0
        THEN Some(<<"At least one model must be provided">>)
        ELSE None

\* create_run: _register_run raises ValueError -> 400
RegReject(task, models) ==
    /\ reg.pc = "idle"
    /\ RegisterError(task, models) # None
    /\ reg' = [IdleReg EXCEPT
                 !.pc = "return", !.task = RequestedTask(task), !.models = models,
                 !.response = Response(400, RegisterError(task, models), None)]
    /\ UNCHANGED <<RUNS_REGISTRY, REGISTRY_LOCK, sup, proc, cli, cancelled_running, stream>>

\* lines 372-395: the request is valid; with REGISTRY_LOCK:
RegRunLock(task, models) ==
    /\ reg.pc = "idle"
    /\ RegisterError(task, models) = None
    /\ FreshRunId \in RunIds
    /\ Cardinality(AllJobs) + Cardinality(Named(models)) <= MaxJobs
    /\ Acquire(Registrar)
    /\ reg' = [pc |-> "run_cs", run_id |-> FreshRunId,
               task |-> _resolve_task_name(RequestedTask(task))[2],
               models |-> models, i |-> 1, job_id |-> 0, response |-> None]
    /\ UNCHANGED <<RUNS_REGISTRY, sup, proc, cli, cancelled_running, stream>>

\* RUNS_REGISTRY[run_id] = run_entry (line 396)
RegRunBody ==
    /\ reg.pc = "run_cs"
    /\ Release(Registrar)
    /\ RUNS_REGISTRY' =
         [r \in DOMAIN RUNS_REGISTRY \cup {reg.run_id} |->
            IF r = reg.run_id
            THEN [run_id |-> reg.run_id, task |-> reg.task, created_at |-> _now,
                  options |-> NoOptions, models |-> <<>>]
            ELSE RUNS_REGISTRY[r]]
    /\ reg' = [reg EXCEPT !.pc = "loop"]
    /\ UNCHANGED <<sup, proc, cli, cancelled_running, stream>>

\* for model_info in models_payload: if not model_name: continue (lines 398-401)
RegLoopSkip ==
    /\ reg.pc = "loop"
    /\ reg.i <= Len(reg.models)
    /\ reg.models[reg.i] = ""
    /\ reg' = [reg EXCEPT !.i = @ + 1]
    /\ UNCHANGED <<RUNS_REGISTRY, REGISTRY_LOCK, sup, proc, cli, cancelled_running, stream>>

\* lines 402-421: the job dict is built; with REGISTRY_LOCK:
RegJobLock ==
    /\ reg.pc = "loop"
    /\ reg.i <= Len(reg.models)
    /\ reg.models[reg.i] # ""
    /\ Acquire(Registrar)
    /\ reg' = [reg EXCEPT !.pc = "job_cs", !.job_id = FreshJobId]
    /\ UNCHANGED <<RUNS_REGISTRY, sup, proc, cli, cancelled_running, stream>>

\* Mutant: the run's job mapping is replaced by one holding the new job only.
AddJob_Replace(registry, run_id, job_id, job) ==
    [registry EXCEPT ![run_id].models = [k \in {job_id} |-> job]]

\* retrieved_run["models"][job_id] = job (line 425)
AddJob(registry, run_id, job_id, job) ==
    [registry EXCEPT ![run_id].models =
        [k \in DOMAIN @ \cup {job_id} |-> IF k = job_id THEN job ELSE @[k]]]

\* lines 421-425, under the lock
RegJobBody ==
    /\ reg.pc = "job_cs"
    /\ Release(Registrar)
    /\ IF reg.run_id \in DOMAIN RUNS_REGISTRY
       THEN /\ RUNS_REGISTRY' =
                 AddJob(RUNS_REGISTRY, reg.run_id, reg.job_id,
                        NewJob(reg.job_id, reg.models[reg.i]))
            /\ reg' = [reg EXCEPT !.pc = "thread"]
       ELSE /\ UNCHANGED RUNS_REGISTRY
            /\ reg' = [reg EXCEPT !.pc = "loop", !.i = @ + 1]
    /\ UNCHANGED <<sup, proc, cli, cancelled_running, stream>>

\* lines 426-433, outside the lock: job["thread"] = worker; worker.start()
RegStartThread ==
    /\ reg.pc = "thread"
    /\ RUNS_REGISTRY' =
         SetJob(reg.run_id, reg.job_id,
                [JobOf(reg.run_id, reg.job_id) EXCEPT !.thread = Some(reg.job_id)])
    /\ sup' = [sup EXCEPT ![reg.job_id] =
                 [NewSup EXCEPT
                    !.pc = "start", !.run_id = reg.run_id,
                    !.command = _build_command(reg.task, reg.models[reg.i],
                                               RUNS_REGISTRY[reg.run_id].options)]]
    /\ reg' = [reg EXCEPT !.pc = "loop", !.i = @ + 1]
    /\ UNCHANGED <<REGISTRY_LOCK, proc, cli, cancelled_running, stream>>

\* create_run after _register_run returned: with REGISTRY_LOCK: (line 447)
RegSnapLock ==
    /\ reg.pc = "loop"
    /\ reg.i > Len(reg.models)
    /\ Acquire(Registrar)
    /\ reg' = [reg EXCEPT !.pc = "snap_cs"]
    /\ UNCHANGED <<RUNS_REGISTRY, sup, proc, cli, cancelled_running, stream>>

\* lines 448-468: the run descriptor create_run returns
CreateResponse(run_id) ==
    IF run_id \in DOMAIN RUNS_REGISTRY
    THEN Response(200, None,
                  Some([run_id |-> run_id,
                        models |-> DOMAIN RUNS_REGISTRY[run_id].models]))
    ELSE Response(500, Some(<<"Run registration failed">>), None)

RegSnapBody ==
    /\ reg.pc = "snap_cs"
    /\ Release(Registrar)
    /\ reg' = IdleReg
    /\ UNCHANGED <<RUNS_REGISTRY, sup, proc, cli, cancelled_running, stream>>

\* return jsonify({'error': str(exc)}), 400
RegReturn ==
    /\ reg.pc = "return"
    /\ reg' = IdleReg
    /\ UNCHANGED <<RUNS_REGISTRY, REGISTRY_LOCK, sup, proc, cli, cancelled_running, stream>>

\* ------------------------------------------------------------------ run_status
CountStatus(models, status) ==
    Cardinality({j \in DOMAIN models : models[j].status = status})

\* Mutant: a job being cancelled is counted as running.
StatusCounts_CancellingRuns(run) ==
    [total |-> Cardinality(DOMAIN run.models),
     complete |-> CountStatus(run.models, "complete"),
     failed |-> CountStatus(run.models, "failed"),
     cancelled |-> CountStatus(run.models, "cancelled"),
     running |-> CountStatus(run.models, "running")
                   + CountStatus(run.models, "cancelling"),
     queued |-> CountStatus(run.models, "queued")]

\* lines 477-483, under the lock
StatusCounts(run) ==
    [total |-> Cardinality(DOMAIN run.models),
     complete |-> CountStatus(run.models, "complete"),
     failed |-> CountStatus(run.models, "failed"),
     cancelled |-> CountStatus(run.models, "cancelled"),
     running |-> CountStatus(run.models, "running"),
     queued |-> CountStatus(run.models, "queued")]

\* Mutant: the failed test does not ask for a failed job.
OverallConditions_AllTerminal(c) ==
    <<[holds |-> c.cancelled = c.total /\ c.total # 0, status |-> "cancelled"],
      [holds |-> c.failed + c.complete + c.cancelled = c.total, status |-> "failed"],
      [holds |-> c.complete = c.total /\ c.total # 0, status |-> "complete"],
      [holds |-> c.running = 0 /\ c.queued = c.total /\ c.total # 0,
       status |-> "queued"]>>

\* lines 492-499: the four tests and what each assigns, in the code's order
OverallConditions(c) ==
    <<[holds |-> c.cancelled = c.total /\ c.total # 0, status |-> "cancelled"],
      [holds |-> c.failed # 0 /\ c.failed + c.complete + c.cancelled = c.total,
       status |-> "failed"],
      [holds |-> c.complete = c.total /\ c.total # 0, status |-> "complete"],
      [holds |-> c.running = 0 /\ c.queued = c.total /\ c.total # 0,
       status |-> "queued"]>>

\* Mutant: cancelled jobs are left out of the terminal count of the failed test.
OverallStatus_NoCancelled(c) ==
    LET s0 == "running"
        s1 == IF c.total = 0 THEN "empty" ELSE s0
        s2 == IF c.cancelled = c.total /\ c.total # 0 THEN "cancelled" ELSE s1
        s3 == IF c.failed # 0 /\ c.failed + c.complete = c.total
              THEN "failed" ELSE s2
        s4 == IF c.complete = c.total /\ c.total # 0 THEN "complete" ELSE s3
        s5 == IF c.running = 0 /\ c.queued = c.total /\ c.total # 0
              THEN "queued" ELSE s4
    IN  s5

\* lines 489-499: successive overriding assignments
OverallStatus(c) ==
    LET if == OverallConditions(c)
        s0 == "running"
        s1 == IF c.total = 0 THEN "empty" ELSE s0
        s2 == IF if[1].holds THEN if[1].status ELSE s1
        s3 == IF if[2].holds THEN if[2].status ELSE s2
        s4 == IF if[3].holds THEN if[3].status ELSE s3
        s5 == IF if[4].holds THEN if[4].status ELSE s4
    IN  s5

\* with REGISTRY_LOCK: (line 473)
StatusLock(run_id) ==
    /\ cli.pc = "idle"
    /\ Acquire(Client)
    /\ cli' = [IdleCli EXCEPT !.pc = "status_cs", !.run_id = run_id]
    /\ UNCHANGED <<RUNS_REGISTRY, sup, proc, reg, cancelled_running, stream>>

\* Mutant: an unknown run is answered as a run without jobs.
StatusResponse_EmptyRun(run_id) ==
    IF run_id \notin DOMAIN RUNS_REGISTRY
    THEN Response(200, None,
                  Some([run_id |-> run_id, overall |-> StatusCounts([models |-> <<>>]),
                        status |-> "empty"]))
    ELSE LET counts == StatusCounts(RUNS_REGISTRY[run_id])
         IN  Response(200, None,
                      Some([run_id |-> run_id, overall |-> counts,
                            status |-> OverallStatus(counts)]))

\* lines 474-519: the counts are taken under the lock; the overall status is
\* computed from them after the lock is released.
StatusResponse(run_id) ==
    IF run_id \notin DOMAIN RUNS_REGISTRY
    THEN Response(404, Some(<<"Run not found">>), None)
    ELSE LET counts == StatusCounts(RUNS_REGISTRY[run_id])
         IN  Response(200, None,
                      Some([run_id |-> run_id, overall |-> counts,
                            status |-> OverallStatus(counts)]))

StatusBody ==
    /\ cli.pc = "status_cs"
    /\ Release(Client)
    /\ cli' = IdleCli
    /\ UNCHANGED <<RUNS_REGISTRY, sup, proc, reg, cancelled_running, stream>>

\* ------------------------------------------------------------------ cancel_run
\* with REGISTRY_LOCK: (line 524)
CancelLock(run_id) ==
    /\ cli.pc = "idle"
    /\ Acquire(Client)
    /\ cli' = [IdleCli EXCEPT !.pc = "cancel_cs", !.run_id = run_id]
    /\ UNCHANGED <<RUNS_REGISTRY, sup, proc, reg, cancelled_running, stream>>

\* Mutant: the canceller itself marks the job cancelled.
CancelJob_Terminal(job) == [job EXCEPT !.cancel_requested = TRUE, !.status = "cancelled"]

\* lines 529-530
CancelJob(job) == [job EXCEPT !.cancel_requested = TRUE, !.status = "cancelling"]

\* Mutant: the loop runs over the jobs of every run of the registry.
CancelRegistry_EveryRun(registry, run_id) ==
    [r \in DOMAIN registry |->
        [registry[r] EXCEPT !.models =
            [j \in DOMAIN registry[r].models |-> CancelJob(registry[r].models[j])]]]

\* lines 525-530: for job in run["models"].values(): ...
CancelRegistry(registry, run_id) ==
    [registry EXCEPT ![run_id].models =
        [j \in DOMAIN registry[run_id].models |->
            CancelJob(registry[run_id].models[j])]]

\* lines 531-539: the children cancel_run signals
Signalled(run) ==
    {j \in DOMAIN run.models :
        run.models[j].process # None /\ proc[Val(run.models[j].process)].state = "alive"}

\* lines 525-541: what cancel_run returns
CancelResponse(run_id) ==
    IF run_id \notin DOMAIN RUNS_REGISTRY
    THEN Response(404, Some(<<"Run not found">>), None)
    ELSE Response(200, None, Some([run_id |-> run_id, status |-> "cancelling"]))

CancelBody ==
    /\ cli.pc = "cancel_cs"
    /\ Release(Client)
    /\ IF cli.run_id \notin DOMAIN RUNS_REGISTRY
       THEN UNCHANGED <<RUNS_REGISTRY, proc, cancelled_running>>
       ELSE LET run == RUNS_REGISTRY[cli.run_id]
            IN  /\ RUNS_REGISTRY' = CancelRegistry(RUNS_REGISTRY, cli.run_id)
                /\ proc' = [j \in JobIds |->
                              IF j \in Signalled(run)
                              THEN [proc[j] EXCEPT !.signalled = TRUE]
                              ELSE proc[j]]
                /\ cancelled_running' =
                     IF /\ Cardinality(DOMAIN run.models) = 2
                        /\ \A j \in DOMAIN run.models : run.models[j].status = "running"
                     THEN cancelled_running \cup {cli.run_id}
                     ELSE cancelled_running
    /\ cli' = IdleCli
    /\ UNCHANGED <<sup, reg, stream>>

\* ------------------------------------------------------------------ specification
ProcLines == {ObjectLine([NoPayload EXCEPT
                 !.sample = Some([NoSection EXCEPT !.index = JInt(0)])])}

SupStep(j) ==
    \/ SupStartLock(j) \/ SupStartBody(j)
    \/ SupSpawn(j) \/ (\E e \in SpawnErrors : SupSpawnRaise(j, e))
    \/ SupStoreLock(j) \/ SupStoreBody(j)
    \/ SupReadEOF(j) \/ (\E e \in ReadErrors : SupReadRaise(j, e))
    \/ SupLineLock(j) \/ SupLineBody(j)
    \/ SupWait(j)
    \/ SupExceptLock(j) \/ SupExceptBody(j)
    \/ SupFinalLock(j) \/ SupFinalBody(j)

RegStep ==
    \/ (\E task \in ValidTasks, models \in ValidModelLists : RegRunLock(task, models))
    \/ RegRunBody \/ RegJobLock \/ RegJobBody
    \/ RegStartThread \/ RegSnapLock \/ RegSnapBody

CliStep ==
    \/ (\E run_id \in RunIds : StatusLock(run_id) \/ CancelLock(run_id))
    \/ StatusBody \/ CancelBody

ProcStep(j) ==
    \/ (\E code \in NaturalExitCodes : ProcExit(j, code))
    \/ (\E code \in SignalExitCodes : ProcKilled(j, code))

Next ==
    \/ \E j \in JobIds : SupStep(j)
    \/ \E j \in JobIds, raw_line \in ProcLines :
          proc[j].written < MaxLines /\ SupReadLine(j, raw_line)
    \/ \E j \in JobIds : ProcStep(j)
    \/ RegStep
    \/ CliStep

Spec == Init /\ [][Next]_vars

\* The supervisor's own steps; what the child or the decoder does to it (a line
\* arrives, an exception is raised) is not its to take.
SupProgress(j) ==
    \/ SupStartLock(j) \/ SupStartBody(j) \/ SupSpawn(j)
    \/ SupStoreLock(j) \/ SupStoreBody(j) \/ SupReadEOF(j)
    \/ SupLineLock(j) \/ SupLineBody(j) \/ SupWait(j)
    \/ SupExceptLock(j) \/ SupExceptBody(j)
    \/ SupFinalLock(j) \/ SupFinalBody(j)

\* Fair scheduling: every thread that can run (or can take the lock again and
\* again) eventually does, and a signalled child exits.
Fairness ==
    /\ \A j \in JobIds : SF_vars(SupProgress(j))
    /\ \A j \in JobIds : WF_vars(\E code \in SignalExitCodes : ProcKilled(j, code))
    /\ SF_vars(RegStep)
    /\ WF_vars(StatusBody \/ CancelBody)

FairSpec == Spec /\ Fairness

\* The program when no client ever calls cancel_run: no job is flagged and no
\* child is signalled; a child ends only by itself.
UncancelledNext ==
    \/ \E j \in JobIds : SupStep(j)
    \/ \E j \in JobIds, raw_line \in ProcLines :
          proc[j].written < MaxLines /\ SupReadLine(j, raw_line)
    \/ \E j \in JobIds, code \in NaturalExitCodes : ProcExit(j, code)
    \/ RegStep
    \/ (\E run_id \in RunIds : StatusLock(run_id))
    \/ StatusBody

UncancelledFairness ==
    /\ \A j \in JobIds : SF_vars(SupProgress(j))
    /\ SF_vars(RegStep)
    /\ WF_vars(StatusBody)

FairSpecUncancelled == Init /\ [][UncancelledNext]_vars /\ UncancelledFairness

\* ------------------------------------------------------------------ claims
Runs == DOMAIN RUNS_REGISTRY
JobsOf(r) == DOMAIN RUNS_REGISTRY[r].models

\* C1: once a job's status is complete, failed or cancelled, no step of any
\* thread changes that job's status again.
C1_TerminalAbsorbing ==
    [][\A r \in Runs : \A j \in JobsOf(r) :
          JobOf(r, j).status \in Terminal
              => RUNS_REGISTRY'[r].models[j].status = JobOf(r, j).status]_vars

\* C4: every status change of a non-terminal job follows
\* queued -> running -> {cancelling, complete, failed, cancelled} and
\* cancelling -> {complete, failed, cancelled}.
DocumentedTransition(s, t) ==
    \/ s = "queued" /\ t = "running"
    \/ s = "running" /\ t \in {"cancelling"} \cup Terminal
    \/ s = "cancelling" /\ t \in Terminal

C4_StateMachine ==
    [][\A r \in Runs : \A j \in JobsOf(r) :
          LET s == JobOf(r, j).status
              t == RUNS_REGISTRY'[r].models[j].status
          IN  (s \notin Terminal /\ t # s) => DocumentedTransition(s, t)]_vars

\* C6: a thread that is spawning, reading a line or waiting for its child does
\* not hold the registry lock, and the lock is only ever held by a thread that
\* is inside one of the short critical sections.
BlockingPcs == {"spawn", "read", "wait"}
SupCriticalPcs == {"start_cs", "store_cs", "line_cs", "except_cs", "final_cs"}

C6_NoBlockingUnderLock ==
    /\ \A j \in JobIds :
          /\ sup[j].pc \in BlockingPcs => REGISTRY_LOCK # Sup(j)
          /\ REGISTRY_LOCK = Sup(j) => sup[j].pc \in SupCriticalPcs
    /\ REGISTRY_LOCK = Registrar => reg.pc \in {"run_cs", "job_cs", "snap_cs"}
    /\ REGISTRY_LOCK = Client => cli.pc \in {"status_cs", "cancel_cs"}

\* A supervisor is blocked reading from a live child that has written nothing
\* while a request thread is inside the lock.
C6_Witness ==
    \E j \in JobIds :
        /\ sup[j].pc = "read"
        /\ proc[j].state = "alive"
        /\ proc[j].written = 0
        /\ REGISTRY_LOCK = Client

\* C7: every step that writes the registry or a job in it is taken by the
\* thread that holds the registry lock.
Moved(t) ==
    \/ t = Registrar /\ reg' # reg
    \/ t = Client /\ cli' # cli
    \/ \E j \in JobIds : t = Sup(j) /\ sup'[j] # sup[j]

C7_WritesUnderLock ==
    [][RUNS_REGISTRY' # RUNS_REGISTRY
          => (REGISTRY_LOCK # NoThread /\ Moved(REGISTRY_LOCK))]_vars

\* C8: the supervisor's terminal transition outside the exception path makes the
\* job cancelled if its cancellation flag is set, else complete iff the stream
\* ended and the exit code is 0, else failed with 'Exited with code <n>'; no job
\* is complete with cancellation requested or a non-zero exit code.
C8_TerminalDecision ==
    [][\A j \in JobIds :
          /\ (sup[j].pc = "final_cs" /\ sup'[j].pc = "done")
                => LET job == JobOf(sup[j].run_id, j)
                       new == RUNS_REGISTRY'[sup[j].run_id].models[j]
                       rc == Val(sup[j].return_code)
                   IN  /\ new.status =
                            IF job.cancel_requested THEN "cancelled"
                            ELSE IF sup[j].eof /\ rc = 0 THEN "complete"
                            ELSE "failed"
                       /\ new.status = "failed"
                             => new.error = Some(ExitedWithCode(rc))
          /\ \A r \in DOMAIN RUNS_REGISTRY' :
                (j \in DOMAIN RUNS_REGISTRY'[r].models
                    /\ RUNS_REGISTRY'[r].models[j].status = "complete")
                   => /\ ~RUNS_REGISTRY'[r].models[j].cancel_requested
                      /\ RUNS_REGISTRY'[r].models[j].returncode = Some(0)]_vars

\* One job ended complete and another failed on exit code 1.
C8_Witness ==
    \E r1 \in Runs, r2 \in Runs : \E a \in JobsOf(r1), b \in JobsOf(r2) :
        /\ JobOf(r1, a).status = "complete"
        /\ JobOf(r2, b).status = "failed"
        /\ JobOf(r2, b).error = Some(ExitedWithCode(1))

\* C9: an exception raised by the spawn or by a read is caught by the
\* supervisor, whose handler marks the job failed with the exception's message
\* as error and ends the thread; the exit-code check is never reached (no exit
\* code is recorded).
C9_ExceptionPath ==
    [][\A j \in JobIds :
          /\ (sup[j].exc = None /\ sup'[j].exc # None) => sup'[j].pc = "except"
          /\ sup'[j].exc # None
                => /\ sup'[j].pc \in {"except", "except_cs", "done"}
                   /\ RUNS_REGISTRY'[sup'[j].run_id].models[j].returncode = None
          /\ (sup[j].pc = "except_cs" /\ sup'[j].pc # "except_cs")
                => LET new == RUNS_REGISTRY'[sup[j].run_id].models[j]
                   IN  /\ sup'[j].pc = "done"
                       /\ new.status = "failed"
                       /\ new.error = sup[j].exc]_vars

\* The handler has run for a spawn that raised and for a read that raised.
C9_Witness ==
    \E r1 \in Runs, r2 \in Runs : \E a \in JobsOf(r1), b \in JobsOf(r2) :
        /\ sup[a].pc = "done" /\ sup[b].pc = "done"
        /\ JobOf(r1, a).status = "failed"
        /\ JobOf(r1, a).error = Some(ExceptionText("FileNotFoundError"))
        /\ JobOf(r2, b).status = "failed"
        /\ JobOf(r2, b).error = Some(ExceptionText("UnicodeDecodeError"))

\* C10 (as claimed): a terminal job has no subprocess handle and has both a
\* finish timestamp and an exit code.
C10_TerminalRecordsExitCode ==
    \A r \in Runs : \A j \in JobsOf(r) :
        JobOf(r, j).status \in Terminal
            => /\ JobOf(r, j).process = None
               /\ JobOf(r, j).finished_at # None
               /\ JobOf(r, j).returncode # None

\* C10 (amended): a terminal job has no subprocess handle and has a finish
\* timestamp; it has an exit code unless the exception handler marked it
\* failed, in which case the exit code is null and the error is the exception's
\* message.
C10_TerminalRecorded ==
    \A r \in Runs : \A j \in JobsOf(r) :
        JobOf(r, j).status \in Terminal
            => /\ JobOf(r, j).process = None
               /\ JobOf(r, j).finished_at # None
               /\ JobOf(r, j).returncode = None
                     => /\ JobOf(r, j).status = "failed"
                        /\ sup[j].exc # None
                        /\ JobOf(r, j).error = sup[j].exc

\* A job failed by the exception handler (no exit code) beside one that ended
\* with an exit code.
C10_Witness ==
    \E r1 \in Runs, r2 \in Runs : \E a \in JobsOf(r1), b \in JobsOf(r2) :
        /\ JobOf(r1, a).status = "failed" /\ JobOf(r1, a).returncode = None
        /\ JobOf(r2, b).status \in Terminal /\ JobOf(r2, b).returncode # None

\* C3: once cancel is issued for a run whose two jobs are both running (none
\* terminal), eventually every job of the run is cancelled and a poll reports
\* the run cancelled, and no job of the run is ever failed.
AllCancelled(r) ==
    /\ r \in Runs
    /\ \A j \in JobsOf(r) : JobOf(r, j).status = "cancelled"
    /\ Val(Val(StatusResponse(r)).body).status = "cancelled"

NoneFailed(r) == r \in Runs => \A j \in JobsOf(r) : JobOf(r, j).status # "failed"

C3_CancelTwoRunning ==
    \A r \in RunIds :
        /\ (r \in cancelled_running) ~> AllCancelled(r)
        /\ [](r \in cancelled_running => NoneFailed(r))

\* C11: a step of the supervisor of job j leaves every other job, of the same
\* run and of every other run, exactly as it was (status, counters, error,
\* flags and all other fields).
C11_JobBoundary ==
    [][\A j \in JobIds :
          (sup[j].pc # "unstarted" /\ sup'[j] # sup[j])
             => \A r \in Runs : \A k \in JobsOf(r) \ {j} :
                   RUNS_REGISTRY'[r].models[k] = JobOf(r, k)]_vars

\* A job failed by an exception while its sibling in the same run goes on
\* running, untouched.
C11_Witness ==
    \E r \in Runs : \E a \in JobsOf(r), b \in JobsOf(r) :
        /\ a # b
        /\ JobOf(r, a).status = "failed" /\ sup[a].pc = "done"
        /\ JobOf(r, b).status = "running" /\ JobOf(r, b).error = None
        /\ sup[b].pc = "read"

\* C12: in every reachable state, cancelling a run a second time right after
\* the first leaves the registry as the first left it, and cancelling a run
\* changes no job of any other run.
C12_CancelIdempotentLocal ==
    \A run_id \in Runs :
        LET once == CancelRegistry(RUNS_REGISTRY, run_id)
        IN  /\ CancelRegistry(once, run_id) = once
            /\ \A r \in Runs \ {run_id} : once[r] = RUNS_REGISTRY[r]

\* A cancel of a run already cancelled is being applied while another run holds
\* a job nobody cancelled.
C12_Witness ==
    /\ cli.pc = "cancel_cs"
    /\ cli.run_id \in Runs
    /\ JobsOf(cli.run_id) # {}
    /\ \A j \in JobsOf(cli.run_id) : JobOf(cli.run_id, j).cancel_requested
    /\ \E r \in Runs \ {cli.run_id} : \E k \in JobsOf(r) :
          ~JobOf(r, k).cancel_requested /\ JobOf(r, k).status = "running"

\* C16: no step removes a run from the registry or a job from a run, and once
\* _register_run has returned for a run its set of job identifiers never
\* changes.
Registering(r) == reg.pc \in {"loop", "job_cs", "thread"} /\ reg.run_id = r

C16_RegistryGrows ==
    [][/\ Runs \subseteq DOMAIN RUNS_REGISTRY'
       /\ \A r \in Runs :
             /\ JobsOf(r) \subseteq DOMAIN RUNS_REGISTRY'[r].models
             /\ ~Registering(r) => DOMAIN RUNS_REGISTRY'[r].models = JobsOf(r)]_vars

\* Two runs are registered, registration is over, and jobs of both have been
\* through a cancel or a terminal transition.
C16_Witness ==
    /\ reg.pc = "idle"
    /\ Cardinality(Runs) = 2
    /\ \A r \in Runs : JobsOf(r) # {}
    /\ \E r \in Runs : \E j \in JobsOf(r) : JobOf(r, j).status \in Terminal
    /\ \E r \in Runs : \E j \in JobsOf(r) : JobOf(r, j).cancel_requested

\* C25: a poll or a cancel of a run id the registry does not hold is answered
\* 404 and changes no run, job, supervisor or subprocess; and no step of a poll
\* changes a run or a job.
C25_UnknownRunAndReadOnlyPoll ==
    [][/\ (cli.pc \in {"status_cs", "cancel_cs"} /\ cli'.pc = "idle"
                /\ cli.run_id \notin Runs)
            => /\ Val(StatusResponse(cli.run_id)).code = 404
               /\ Val(CancelResponse(cli.run_id)).code = 404
               /\ UNCHANGED <<RUNS_REGISTRY, sup, proc>>
       /\ (cli' # cli /\ (cli.pc = "status_cs" \/ cli'.pc = "status_cs"))
            => UNCHANGED <<RUNS_REGISTRY, sup, proc>>]_vars

\* A cancel of an unknown run is inside the lock while the registry holds a
\* run with a running job.
C25_Witness ==
    /\ cli.pc = "cancel_cs"
    /\ cli.run_id \notin Runs
    /\ \E r \in Runs : \E j \in JobsOf(r) : JobOf(r, j).status = "running"

\* C26: once a job's cancellation flag is set, no step changes its counters
\* or its tail buffer: the supervisor applies no further line.
C26_NoLineAfterCancel ==
    [][\A r \in Runs : \A j \in JobsOf(r) :
          JobOf(r, j).cancel_requested
             => LET new == RUNS_REGISTRY'[r].models[j]
                IN  /\ new.samples_completed = JobOf(r, j).samples_completed
                    /\ new.total_samples = JobOf(r, j).total_samples
                    /\ new.log_tail = JobOf(r, j).log_tail
                    /\ new.cancel_requested]_vars

\* A supervisor read a line, found the flag set and left the loop: the line is
\* neither counted nor in the tail.
C26_Witness ==
    \E r \in Runs : \E j \in JobsOf(r) :
        /\ JobOf(r, j).cancel_requested
        /\ sup[j].raw_line # None
        /\ sup[j].pc \in {"wait", "final", "final_cs", "done"}
        /\ JobOf(r, j).log_tail = <<>>
        /\ JobOf(r, j).samples_completed = JInt(0)

\* C27: a job's status becomes complete, failed or cancelled only in a step of
\* its own supervisor (the exception handler or the final block), and becomes
\* cancelled only if the flag was set when the supervisor looked.
C27_TerminalBySupervisor ==
    [][\A r \in Runs : \A j \in JobsOf(r) :
          LET new == RUNS_REGISTRY'[r].models[j]
          IN  (new.status \in Terminal /\ new.status # JobOf(r, j).status)
                 => /\ sup[j].pc \in {"except_cs", "final_cs"}
                    /\ sup'[j].pc = "done"
                    /\ REGISTRY_LOCK = Sup(j)
                    /\ new.status = "cancelled"
                          => (sup[j].pc = "final_cs" /\ JobOf(r, j).cancel_requested)]_vars

\* A job was cancelled by its supervisor's final block.
C27_Witness ==
    \E r \in Runs : \E j \in JobsOf(r) :
        /\ JobOf(r, j).status = "cancelled"
        /\ JobOf(r, j).cancel_requested
        /\ sup[j].pc = "done"
        /\ JobOf(r, j).returncode = Some(0 - 15)

\* C28: a cancel signals the subprocess of every job of the run that is not
\* terminal and whose subprocess is alive when the cancel is applied.
C28_CancelSignalsLive ==
    [][(cli.pc = "cancel_cs" /\ cli'.pc = "idle" /\ cli.run_id \in Runs)
          => \A j \in JobsOf(cli.run_id) :
                (JobOf(cli.run_id, j).status \notin Terminal /\ proc[j].state = "alive")
                   => proc'[j].signalled]_vars

\* The cancellation flag of job j is set.
CancelRequested(j) ==
    \E r \in Runs : j \in JobsOf(r) /\ JobOf(r, j).cancel_requested

\* The supervisor of job j has returned and the job is complete or failed.
Finished(j) ==
    /\ sup[j].pc = "done"
    /\ JobOf(sup[j].run_id, j).status \in {"complete", "failed"}

\* C29: under fair scheduling, a job whose subprocess exits and whose
\* cancellation flag is never set has its supervisor return, and ends complete
\* or failed for good.
C29_SupervisorTerminates ==
    \A j \in JobIds :
        ([]~CancelRequested(j) /\ <>(proc[j].state = "exited")) => <>[]Finished(j)

\* One job of a run ended complete and the other failed, neither cancelled.
C29_Witness ==
    \E r \in Runs : \E j, k \in JobsOf(r) :
        /\ Finished(j) /\ Finished(k)
        /\ ~CancelRequested(j) /\ ~CancelRequested(k)
        /\ proc[j].state = "exited" /\ proc[k].state = "exited"
        /\ JobOf(r, j).status = "complete"
        /\ JobOf(r, k).status = "failed"

\* C31: in the response to a poll of a known run, total is the number of the
\* run's jobs, the five counts add up to at most total, and they add up to
\* total exactly when no job of the run is cancelling.
C31_CountsAddUp ==
    (cli.pc = "status_cs" /\ cli.run_id \in Runs)
        => LET overall == Val(Val(StatusResponse(cli.run_id)).body).overall
               sum == overall.complete + overall.failed + overall.cancelled
                         + overall.running + overall.queued
           IN  /\ overall.total = Cardinality(JobsOf(cli.run_id))
               /\ sum <= overall.total
               /\ (sum = overall.total)
                     <=> (\A j \in JobsOf(cli.run_id) :
                             JobOf(cli.run_id, j).status # "cancelling")

\* A poll of a run with one job cancelling and one complete: the counts add
\* up to one of two.
C31_Witness ==
    /\ cli.pc = "status_cs"
    /\ cli.run_id \in Runs
    /\ {JobOf(cli.run_id, j).status : j \in JobsOf(cli.run_id)}
          = {"cancelling", "complete"}
    /\ Val(Val(StatusResponse(cli.run_id)).body).overall.total = 2
    /\ Val(Val(StatusResponse(cli.run_id)).body).overall.complete = 1
    /\ Val(Val(StatusResponse(cli.run_id)).body).overall.running = 0

\* ------------------------------------------------------------------ registration model
\* create_run fed every request (task absent, aliased or unknown; model list
\* empty, or with entries that name a model or carry an empty name), with the
\* supervisors it starts taking their first critical section.
RegisterNext ==
    \/ \E task \in RequestTasks, models \in ModelLists : RegReject(task, models)
    \/ \E task \in RequestTasks, models \in ModelLists : RegRunLock(task, models)
    \/ RegRunBody
    \/ RegLoopSkip
    \/ RegJobLock
    \/ RegJobBody
    \/ RegStartThread
    \/ RegSnapLock
    \/ RegSnapBody
    \/ RegReturn
    \/ \E j \in JobIds : SupStartLock(j)
    \/ \E j \in JobIds : SupStartBody(j)

SpecRegister == Init /\ [][RegisterNext]_vars

\* C13: when _register_run returns for an accepted request the run holds as
\* many jobs as the request's model list has entries, each with a started
\* supervisor; and each job is created queued, with 0 samples completed, no
\* total, no error and the cancellation flag unset.
C13_OneJobPerEntry ==
    [][/\ (reg.pc = "loop" /\ reg'.pc = "snap_cs")
            => /\ Cardinality(JobsOf(reg.run_id)) = Len(reg.models)
               /\ \A j \in JobsOf(reg.run_id) :
                     sup[j].pc # "unstarted" /\ sup[j].run_id = reg.run_id
       /\ (reg.pc = "job_cs" /\ reg'.pc = "thread")
            => LET job == RUNS_REGISTRY'[reg.run_id].models[reg.job_id]
               IN  /\ reg.job_id \notin AllJobs
                   /\ job.status = "queued"
                   /\ job.samples_completed = JInt(0)
                   /\ job.total_samples = None
                   /\ job.error = None
                   /\ ~job.cancel_requested]_vars

\* C14: a request whose model list is empty (or missing: the default is the
\* empty list) is answered 400, and neither the rejection nor the return
\* changes the registry, a supervisor or a subprocess.
C14_EmptyModelsRejected ==
    [][/\ (reg.pc = "idle" /\ reg'.pc # "idle" /\ reg'.models = <<>>)
            => /\ reg'.pc = "return"
               /\ Val(reg'.response).code = 400
               /\ UNCHANGED <<RUNS_REGISTRY, sup, proc>>
       /\ (reg.pc = "return" /\ reg'.models = <<>> /\ reg' # reg)
            => UNCHANGED <<RUNS_REGISTRY, sup, proc>>]_vars

\* A request for a known task with no models has been answered 400 while the
\* registry already holds a run.
C14_Witness ==
    /\ reg.pc = "return"
    /\ reg.models = <<>>
    /\ reg.task = "telecom_bench"
    /\ Val(reg.response).code = 400
    /\ Val(reg.response).error = Some(<<"At least one model must be provided">>)
    /\ Runs # {}

\* C15: a request whose task resolves to no known task is answered 400 with
\* a message naming the requested task, whatever its model list, and neither
\* the rejection nor the return changes the registry, a supervisor or a
\* subprocess.
C15_UnknownTaskRejected ==
    [][/\ (reg.pc = "idle" /\ reg'.pc # "idle"
                /\ TASK_ALIASES(reg'.task) \notin TASK_FILES)
            => /\ reg'.pc = "return"
               /\ Val(reg'.response).code = 400
               /\ Val(reg'.response).error = Some(<<"Unsupported task: ", reg'.task>>)
               /\ UNCHANGED <<RUNS_REGISTRY, sup, proc>>
       /\ (reg.pc = "return" /\ TASK_ALIASES(reg.task) \notin TASK_FILES
                /\ reg' # reg)
            => UNCHANGED <<RUNS_REGISTRY, sup, proc>>]_vars

\* A request for an unknown task with a non-empty model list has been answered
\* 400 naming the task.
C15_Witness ==
    /\ reg.pc = "return"
    /\ reg.task = "nosuchtask"
    /\ reg.models # <<>>
    /\ Val(reg.response).code = 400
    /\ Val(reg.response).error = Some(<<"Unsupported task: ", "nosuchtask">>)

\* ------------------------------------------------------------------ /stream
\* The n-th line the child writes, and the server-sent events generate() yields.
StreamLine(n) == <<"line", n>>
DataEvent(line) == <<"data: ", line, "\n\n">>
DoneEvent(return_code) == <<"data: \n[DONE] Exit code: ", return_code, "\n\n">>
ErrorEvent(message) == <<"data: [ERROR] ", message, "\n\n">>

StreamTasks == {"telemath", "nosuchtask"}

StreamFrame ==
    UNCHANGED <<RUNS_REGISTRY, REGISTRY_LOCK, sup, proc, reg, cli, cancelled_running>>

\* lines 642-646: the task does not resolve; one [ERROR] event, no child.
StreamReject(task) ==
    /\ stream.pc = "idle"
    /\ _resolve_task_name(task)[1] # "ok"
    /\ stream' = [stream EXCEPT
                    !.pc = "done",
                    !.events = <<ErrorEvent(_resolve_task_name(task)[2])>>]
    /\ StreamFrame

\* lines 691-705: Popen, the queue, and the reader thread started.
StreamSpawn(task) ==
    /\ stream.pc = "idle"
    /\ _resolve_task_name(task)[1] = "ok"
    /\ stream' = [stream EXCEPT !.pc = "get", !.child = "alive",
                                !.reader = "readline"]
    /\ StreamFrame

\* lines 727-728: Popen raises.
StreamSpawnRaise(task, e) ==
    /\ stream.pc = "idle"
    /\ _resolve_task_name(task)[1] = "ok"
    /\ stream' = [stream EXCEPT !.pc = "done",
                                !.events = <<ErrorEvent(ExceptionText(e))>>]
    /\ StreamFrame

\* The child writes its next line into the pipe, or exits.
ChildWrite ==
    /\ stream.child = "alive"
    /\ stream.written < MaxStreamLines
    /\ stream' = [stream EXCEPT
                    !.written = @ + 1,
                    !.pipe = Append(@, StreamLine(stream.written + 1))]
    /\ StreamFrame

ChildExit(code) ==
    /\ stream.child = "alive"
    /\ stream' = [stream EXCEPT !.child = "exited", !.returncode = Some(code)]
    /\ StreamFrame

\* enqueue_output (lines 679-682): out.readline() returns a line, ...
ReaderRead ==
    /\ stream.reader = "readline"
    /\ stream.pipe # <<>>
    /\ stream' = [stream EXCEPT !.reader = "put", !.line = Some(Head(stream.pipe)),
                                !.pipe = Tail(@)]
    /\ StreamFrame

\* ... queue.put(line), ...
ReaderPut ==
    /\ stream.reader = "put"
    /\ stream' = [stream EXCEPT !.reader = "readline", !.line = None,
                                !.queue = Append(@, Val(stream.line))]
    /\ StreamFrame

\* ... or '' at end-of-file: out.close() and the thread ends.
ReaderEOF ==
    /\ stream.reader = "readline"
    /\ stream.pipe = <<>>
    /\ stream.child = "exited"
    /\ stream' = [stream EXCEPT !.reader = "closed"]
    /\ StreamFrame

\* lines 710-711: q.get(timeout=0.1) returns a line; it is yielded.
ConsumerGet ==
    /\ stream.pc = "get"
    /\ stream.queue # <<>>
    /\ stream' = [stream EXCEPT !.queue = Tail(@),
                                !.events = Append(@, DataEvent(Head(stream.queue)))]
    /\ StreamFrame

\* lines 712-714: the queue stayed empty for the timeout and process.poll()
\* is not None (while the child lives the loop just goes round again).
ConsumerEmpty ==
    /\ stream.pc = "get"
    /\ stream.queue = <<>>
    /\ stream.child = "exited"
    /\ stream' = [stream EXCEPT !.pc = "drain"]
    /\ StreamFrame

\* lines 716-722: while not q.empty(): yield q.get_nowait(); then break.
ConsumerDrain ==
    /\ stream.pc = "drain"
    /\ stream' = IF stream.queue # <<>>
                 THEN [stream EXCEPT
                         !.queue = Tail(@),
                         !.events = Append(@, DataEvent(Head(stream.queue)))]
                 ELSE [stream EXCEPT !.pc = "wait"]
    /\ StreamFrame

\* lines 724-725: return_code = process.wait(); the final event.
ConsumerDone ==
    /\ stream.pc = "wait"
    /\ stream.child = "exited"
    /\ stream' = [stream EXCEPT
                    !.pc = "done",
                    !.events = Append(@, DoneEvent(Val(stream.returncode)))]
    /\ StreamFrame

StreamNext ==
    \/ \E task \in StreamTasks : StreamReject(task)
    \/ \E task \in StreamTasks : StreamSpawn(task)
    \/ \E task \in StreamTasks, e \in SpawnErrors : StreamSpawnRaise(task, e)
    \/ ChildWrite
    \/ \E code \in NaturalExitCodes : ChildExit(code)
    \/ ReaderRead
    \/ ReaderPut
    \/ ReaderEOF
    \/ ConsumerGet
    \/ ConsumerEmpty
    \/ ConsumerDrain
    \/ ConsumerDone

SpecStream == Init /\ [][StreamNext]_vars

\* C17: when the response of a /stream request whose child was spawned ends,
\* the events sent are one data event per line the child wrote, in the order
\* written, followed by the single '[DONE] Exit code: <n>' event.
C17_StreamDelivery ==
    (stream.pc = "done" /\ stream.child # "none")
        => stream.events =
              [k \in 1..stream.written |-> DataEvent(StreamLine(k))]
                 \o <<DoneEvent(Val(stream.returncode))>>

\* ------------------------------------------------------------------ parser model
\* One job whose supervisor has started its child and stored the handle, fed any
\* sequence of lines of any of the shapes the parser knows.
Counts == {JInt(n) : n \in 0..MaxCount}

ParserPayloads ==
    {[NoPayload EXCEPT !.results = Some([NoResults EXCEPT !.total_samples = v])] :
        v \in Counts}
    \cup {[NoPayload EXCEPT !.results = Some([NoResults EXCEPT !.completed_samples = v])] :
        v \in Counts}
    \cup {[NoPayload EXCEPT !.progress = Some([NoSection EXCEPT !.total = v])] :
        v \in Counts}
    \cup {[NoPayload EXCEPT !.progress = Some([NoSection EXCEPT !.completed = v])] :
        v \in Counts}
    \cup {[NoPayload EXCEPT !.sample = Some([NoSection EXCEPT !.total = v])] :
        v \in Counts}
    \cup {[NoPayload EXCEPT !.sample = Some([NoSection EXCEPT !.completed = v])] :
        v \in Counts}
    \cup {[NoPayload EXCEPT !.sample = Some([NoSection EXCEPT !.index = v])] :
        v \in Counts}
    \cup {[NoPayload EXCEPT !.event = Some(e), !.completed = v] :
        e \in {"sample_complete", "start"}, v \in Counts}

ParserLines ==
    {TextLine("log"), ScalarLine("42")} \cup {ObjectLine(p) : p \in ParserPayloads}

ParserInit ==
    /\ RUNS_REGISTRY =
         <<[run_id |-> 1, task |-> "telemath", created_at |-> _now,
            options |-> NoOptions,
            models |-> <<[NewJob(1, "m") EXCEPT !.status = "running",
                                                !.started_at = _now,
                                                !.process = Some(1),
                                                !.thread = Some(1)]>>]>>
    /\ REGISTRY_LOCK = NoThread
    /\ sup = [j \in JobIds |->
                IF j = 1 THEN [NewSup EXCEPT !.pc = "read", !.run_id = 1] ELSE NewSup]
    /\ proc = [j \in JobIds |->
                 IF j = 1 THEN [NewProc EXCEPT !.state = "alive"] ELSE NewProc]
    /\ reg = IdleReg
    /\ cli = IdleCli
    /\ cancelled_running = {}
    /\ stream = NoStream

ParserNext ==
    \/ \E raw_line \in ParserLines :
          proc[1].written < MaxParserLines /\ SupReadLine(1, raw_line)
    \/ SupLineLock(1)
    \/ SupLineBody(1)

SpecParser == ParserInit /\ [][ParserNext]_vars

\* C2: no step lowers a job's samples_completed, whatever lines are parsed.
C2_CompletedMonotone ==
    [][\A r \in Runs : \A j \in JobsOf(r) :
          IntOf(RUNS_REGISTRY'[r].models[j].samples_completed)
              >= IntOf(JobOf(r, j).samples_completed)]_vars

\* C20: a parsed line that carries a total (results.total_samples,
\* progress.total or sample.total) leaves total_samples equal to that value,
\* whatever was stored before; a line that carries none leaves total_samples
\* unchanged.
LineTotal(raw_line) ==
    LET p == raw_line.payload
    IN  IF raw_line.kind # "object" THEN None
        ELSE IF p.sample # None /\ Val(p.sample).total # None
        THEN Val(p.sample).total
        ELSE IF p.progress # None /\ Val(p.progress).total # None
        THEN Val(p.progress).total
        ELSE IF p.results # None THEN Val(p.results).total_samples
        ELSE None

C20_TotalLastWriteWins ==
    [][\A j \in JobIds :
          (sup[j].pc = "line_cs" /\ sup'[j].pc = "read")
             => LET job == JobOf(sup[j].run_id, j)
                    new == RUNS_REGISTRY'[sup[j].run_id].models[j]
                    total == LineTotal(Val(sup[j].raw_line))
                IN  new.total_samples =
                       IF total # None THEN total ELSE job.total_samples]_vars

\* A progress line set the total to 1 and a later sample line replaced it by 2.
C20_Witness ==
    LET job == JobOf(1, 1)
    IN  /\ sup[1].pc = "read"
        /\ Len(job.log_tail) = 2
        /\ LineTotal(job.log_tail[1]) = JInt(1)
        /\ job.log_tail[1].payload.progress # None
        /\ LineTotal(job.log_tail[2]) = JInt(2)
        /\ job.log_tail[2].payload.sample # None
        /\ job.total_samples = JInt(2)

\* ------------------------------------------------------------------ value model
\* The same job, fed progress records whose fields carry JSON values of other
\* kinds than the counts above: a negative number, a string.
JsonValues == {JInt(0 - 1), JInt(1), JStr("many")}

ValueLines ==
    {ObjectLine([NoPayload EXCEPT !.results = Some([NoResults EXCEPT !.total_samples = v])]) :
        v \in JsonValues}
    \cup {ObjectLine([NoPayload EXCEPT
                        !.results = Some([NoResults EXCEPT !.completed_samples = v])]) :
        v \in JsonValues}
    \cup {ObjectLine([NoPayload EXCEPT !.progress = Some([NoSection EXCEPT !.total = v])]) :
        v \in JsonValues}
    \cup {ObjectLine([NoPayload EXCEPT !.progress = Some([NoSection EXCEPT !.completed = v])]) :
        v \in JsonValues}
    \cup {ObjectLine([NoPayload EXCEPT !.sample = Some([NoSection EXCEPT !.total = v])]) :
        v \in JsonValues}
    \cup {ObjectLine([NoPayload EXCEPT !.sample = Some([NoSection EXCEPT !.completed = v])]) :
        v \in JsonValues}
    \cup {ObjectLine([NoPayload EXCEPT !.sample = Some([NoSection EXCEPT !.index = v])]) :
        v \in JsonValues}
    \cup {ObjectLine([NoPayload EXCEPT !.event = Some("sample_complete"),
                                       !.completed = v]) :
        v \in JsonValues}

ValuesNext ==
    \/ \E raw_line \in ValueLines :
          proc[1].written < MaxValueLines /\ SupReadLine(1, raw_line)
    \/ SupLineLock(1)
    \/ SupLineBody(1)
    \/ SupExceptLock(1)
    \/ SupExceptBody(1)

SpecValues == ParserInit /\ [][ValuesNext]_vars

\* C32: every job's samples_completed is a non-negative integer and its
\* total_samples is null or an integer, whatever values the records carry.
C32_CountsAreIntegers ==
    \A r \in Runs : \A j \in JobsOf(r) :
        /\ IsInt(JobOf(r, j).samples_completed)
        /\ IntOf(JobOf(r, j).samples_completed) >= 0
        /\ JobOf(r, j).total_samples = None \/ IsInt(JobOf(r, j).total_samples)

\* ------------------------------------------------------------------ aggregate model
\* One run whose jobs carry every combination of statuses, polled.
OverallInit ==
    /\ \E n \in 0..MaxStatusJobs : \E st \in [1..n -> Statuses] :
          RUNS_REGISTRY =
            <<[run_id |-> 1, task |-> "telemath", created_at |-> _now,
               options |-> NoOptions,
               models |-> [j \in 1..n |-> [NewJob(j, "m") EXCEPT !.status = st[j]]]]>>
    /\ REGISTRY_LOCK = NoThread
    /\ sup = [j \in JobIds |-> NewSup]
    /\ proc = [j \in JobIds |-> NewProc]
    /\ reg = IdleReg
    /\ cli = IdleCli
    /\ cancelled_running = {}
    /\ stream = NoStream

OverallNext ==
    \/ \E run_id \in RunIds : StatusLock(run_id)
    \/ StatusBody

SpecOverall == OverallInit /\ [][OverallNext]_vars

\* The aggregate status as documented, by priority.
DocumentedOverall(models) ==
    LET all(S) == \A j \in DOMAIN models : models[j].status \in S
        some(S) == \E j \in DOMAIN models : models[j].status \in S
    IN  IF DOMAIN models = {} THEN "empty"
        ELSE IF all({"cancelled"}) THEN "cancelled"
        ELSE IF all(Terminal) /\ some({"failed"}) THEN "failed"
        ELSE IF all({"complete"}) THEN "complete"
        ELSE IF all({"queued"}) THEN "queued"
        ELSE "running"

\* C5: the overall status a poll of a known run returns is the documented
\* function of the run's current job statuses.
C5_OverallStatus ==
    (cli.pc = "status_cs" /\ cli.run_id \in Runs)
        => LET response == Val(StatusResponse(cli.run_id))
           IN  /\ response.code = 200
               /\ Val(response.body).status =
                     DocumentedOverall(RUNS_REGISTRY[cli.run_id].models)

\* A poll of a run whose two jobs are complete and failed reports failed.
C5_Witness ==
    /\ cli.pc = "status_cs"
    /\ cli.run_id \in Runs
    /\ JobsOf(cli.run_id) = {1, 2}
    /\ JobOf(cli.run_id, 1).status = "complete"
    /\ JobOf(cli.run_id, 2).status = "failed"
    /\ Val(Val(StatusResponse(cli.run_id)).body).status = "failed"

\* The overriding assignments of the four tests taken in the order p.
OverallInOrder(c, p) ==
    LET if == OverallConditions(c)
        s1 == IF c.total = 0 THEN "empty" ELSE "running"
        s2 == IF if[p[1]].holds THEN if[p[1]].status ELSE s1
        s3 == IF if[p[2]].holds THEN if[p[2]].status ELSE s2
        s4 == IF if[p[3]].holds THEN if[p[3]].status ELSE s3
        s5 == IF if[p[4]].holds THEN if[p[4]].status ELSE s4
    IN  s5

\* The first test that holds decides, in the documented priority order.
OverallByPriority(c) ==
    LET if == OverallConditions(c)
    IN  IF if[1].holds THEN if[1].status
        ELSE IF if[2].holds THEN if[2].status
        ELSE IF if[3].holds THEN if[3].status
        ELSE IF if[4].holds THEN if[4].status
        ELSE "running"

\* C30: for a run with at least one job at most one of the four tests holds,
\* so the status a poll returns is the same for every order of the four
\* assignments and equals the first match in priority order.
C30_ConditionsExclusive ==
    (cli.pc = "status_cs" /\ cli.run_id \in Runs /\ JobsOf(cli.run_id) # {})
        => LET c == StatusCounts(RUNS_REGISTRY[cli.run_id])
               status == Val(Val(StatusResponse(cli.run_id)).body).status
           IN  /\ Cardinality({k \in 1..4 : OverallConditions(c)[k].holds}) <= 1
               /\ \A p \in Permutations(1..4) : OverallInOrder(c, p) = status
               /\ OverallByPriority(c) = status

\* A poll of a run with a failed, a cancelled and a complete job: the failed
\* test is the only one that holds.
C30_Witness ==
    /\ cli.pc = "status_cs"
    /\ cli.run_id \in Runs
    /\ {JobOf(cli.run_id, j).status : j \in JobsOf(cli.run_id)}
          = {"failed", "cancelled", "complete"}
    /\ {k \in 1..4 : OverallConditions(StatusCounts(RUNS_REGISTRY[cli.run_id]))[k].holds}
          = {2}

\* ------------------------------------------------------------------ tail-buffer model
\* One running job that already holds counters, fed lines that are not JSON
\* objects; the n-th line carries n as its text.
TailLines(n) ==
    IF n <= MaxMixedLines THEN {TextLine(n), ScalarLine(n)} ELSE {TextLine(n)}

TailInit ==
    /\ RUNS_REGISTRY =
         <<[run_id |-> 1, task |-> "telemath", created_at |-> _now,
            options |-> NoOptions,
            models |-> <<[NewJob(1, "m") EXCEPT !.status = "running",
                                                !.started_at = _now,
                                                !.process = Some(1),
                                                !.thread = Some(1),
                                                !.samples_completed = JInt(1),
                                                !.total_samples = JInt(2)]>>]>>
    /\ REGISTRY_LOCK = NoThread
    /\ sup = [j \in JobIds |->
                IF j = 1 THEN [NewSup EXCEPT !.pc = "read", !.run_id = 1] ELSE NewSup]
    /\ proc = [j \in JobIds |->
                 IF j = 1 THEN [NewProc EXCEPT !.state = "alive"] ELSE NewProc]
    /\ reg = IdleReg
    /\ cli = IdleCli
    /\ cancelled_running = {}
    /\ stream = NoStream

TailNext ==
    \/ \E raw_line \in TailLines(proc[1].written + 1) :
          proc[1].written < MaxTailLines /\ SupReadLine(1, raw_line)
    \/ SupLineLock(1)
    \/ SupLineBody(1)

SpecTail == TailInit /\ [][TailNext]_vars

\* C18: parsing the n-th line, not a JSON object, leaves samples_completed,
\* total_samples, status and error as they were and appends the line without
\* its trailing whitespace; the tail then holds the last min(n, 200) lines in
\* arrival order, never more than 200.
C18_TailBuffer ==
    [][(sup[1].pc = "line_cs" /\ sup'[1].pc = "read")
          => LET job == JobOf(1, 1)
                 new == RUNS_REGISTRY'[1].models[1]
                 n == proc[1].written
                 len == Len(new.log_tail)
             IN  /\ new.samples_completed = job.samples_completed
                 /\ new.total_samples = job.total_samples
                 /\ new.status = job.status
                 /\ new.error = job.error
                 /\ len = IF n < MAX_LOG_LINES THEN n ELSE MAX_LOG_LINES
                 /\ new.log_tail[len] = rstrip(Val(sup[1].raw_line))
                 /\ \A i \in 1..len :
                       /\ new.log_tail[i].text = n - len + i
                       /\ ~new.log_tail[i].ws]_vars

\* The 201st line has been appended: the tail holds 200 lines, the oldest of
\* them the second line (a JSON non-object), the first one evicted.
C18_Witness ==
    /\ sup[1].pc = "read"
    /\ proc[1].written = MAX_LOG_LINES + 1
    /\ Len(JobOf(1, 1).log_tail) = MAX_LOG_LINES
    /\ JobOf(1, 1).log_tail[1] = rstrip(ScalarLine(2))
    /\ JobOf(1, 1).log_tail[MAX_LOG_LINES] = rstrip(TextLine(MAX_LOG_LINES + 1))
    /\ JobOf(1, 1).samples_completed = JInt(1)

\* ------------------------------------------------------------------ sample-record model
\* One running job whose total is n, fed the records {"sample": {"index": 0}}
\* to {"sample": {"index": n - 1}} in order.
SampleLine(index) ==
    ObjectLine([NoPayload EXCEPT
                  !.sample = Some([NoSection EXCEPT !.index = JInt(index)])])

SamplesInit ==
    /\ \E n \in 1..MaxSamples :
          RUNS_REGISTRY =
            <<[run_id |-> 1, task |-> "telemath", created_at |-> _now,
               options |-> NoOptions,
               models |-> <<[NewJob(1, "m") EXCEPT !.status = "running",
                                                   !.started_at = _now,
                                                   !.process = Some(1),
                                                   !.thread = Some(1),
                                                   !.total_samples = JInt(n)]>>]>>
    /\ REGISTRY_LOCK = NoThread
    /\ sup = [j \in JobIds |->
                IF j = 1 THEN [NewSup EXCEPT !.pc = "read", !.run_id = 1] ELSE NewSup]
    /\ proc = [j \in JobIds |->
                 IF j = 1 THEN [NewProc EXCEPT !.state = "alive"] ELSE NewProc]
    /\ reg = IdleReg
    /\ cli = IdleCli
    /\ cancelled_running = {}
    /\ stream = NoStream

SamplesNext ==
    \/ /\ proc[1].written < IntOf(JobOf(1, 1).total_samples)
       /\ SupReadLine(1, SampleLine(proc[1].written))
    \/ SupLineLock(1)
    \/ SupLineBody(1)

SpecSamples == SamplesInit /\ [][SamplesNext]_vars

\* C19: after the records with index 0..k-1 the job has samples_completed = k,
\* and after all n of them (n = total_samples) samples_completed = n and the
\* snapshot's progress_percent is 100.0.
C19_SamplesToTotal ==
    sup[1].pc = "read"
        => LET job == JobOf(1, 1)
           IN  /\ job.samples_completed = JInt(proc[1].written)
               /\ proc[1].written = IntOf(job.total_samples)
                     => /\ job.samples_completed = job.total_samples
                        /\ _snapshot_job(job).progress_percent = Some(10000)

\* The spec's case: total 10, ten records processed, 100.0 percent.
C19_Witness ==
    /\ sup[1].pc = "read"
    /\ proc[1].written = 10
    /\ JobOf(1, 1).total_samples = JInt(10)
    /\ JobOf(1, 1).samples_completed = JInt(10)
    /\ _snapshot_job(JobOf(1, 1)).progress_percent = Some(10000)

\* ------------------------------------------------------------------ snapshot model
\* One run with one started job whose counters, total and timestamps take every
\* value of small sets (clock readings are numbers here), polled.
Times == {50, 100, 150}
SnapshotCounts == {JInt(n) : n \in (0 - 1)..(MaxSnapshotCount + 1)}

SnapshotInit ==
    /\ \E completed \in SnapshotCounts, total \in SnapshotCounts \cup {None},
          started_at \in Times, finished_at \in {Some(t) : t \in Times} \cup {None} :
          RUNS_REGISTRY =
            <<[run_id |-> 1, task |-> "telemath", created_at |-> Some(50),
               options |-> NoOptions,
               models |-> <<[NewJob(1, "m") EXCEPT
                               !.status = IF finished_at = None THEN "running"
                                          ELSE "failed",
                               !.started_at = Some(started_at),
                               !.finished_at = finished_at,
                               !.thread = Some(1),
                               !.samples_completed = completed,
                               !.total_samples = total]>>]>>
    /\ REGISTRY_LOCK = NoThread
    /\ sup = [j \in JobIds |-> NewSup]
    /\ proc = [j \in JobIds |-> NewProc]
    /\ reg = IdleReg
    /\ cli = IdleCli
    /\ cancelled_running = {}
    /\ stream = NoStream

SnapshotNext ==
    \/ \E run_id \in RunIds : StatusLock(run_id)
    \/ StatusBody

SpecSnapshot == SnapshotInit /\ [][SnapshotNext]_vars

Polled == cli.pc = "status_cs" /\ cli.run_id \in Runs
RatEq(a, b) == a[1] * b[2] = b[1] * a[2]
Elapsed(job, now) ==
    (IF job.finished_at # None THEN Val(job.finished_at) ELSE now) - Val(job.started_at)

\* C21 (as claimed): eta_seconds is null when completed = 0 or the total is
\* unknown; when completed > 0 and the total is known it is
\* (total - completed) * (elapsed / completed), or 0 if that is negative.
C21_EtaWheneverKnown ==
    Polled => \A j \in JobsOf(cli.run_id), now \in Times :
        LET job == JobOf(cli.run_id, j)
            c == IntOf(job.samples_completed)
            eta == _estimate_remaining(job, now)
            value == <<(IntOf(job.total_samples) - c) * Elapsed(job, now), c>>
        IN  /\ (c = 0 \/ job.total_samples = None) => eta = None
            /\ (c > 0 /\ job.total_samples # None)
                  => /\ eta # None
                     /\ IF value[1] < 0 THEN RatEq(Val(eta), <<0, 1>>)
                        ELSE RatEq(Val(eta), value)

\* C21 (amended): eta_seconds is null when completed = 0, the total is unknown
\* or 0, or the elapsed time is not positive; when completed > 0, the total is
\* known and not 0 and the elapsed time is positive it is
\* (total - completed) * (elapsed / completed), or 0 if total <= completed.
C21_Eta ==
    Polled => \A j \in JobsOf(cli.run_id), now \in Times :
        LET job == JobOf(cli.run_id, j)
            c == IntOf(job.samples_completed)
            eta == _estimate_remaining(job, now)
            elapsed == Elapsed(job, now)
            nototal == job.total_samples = None \/ IntOf(job.total_samples) = 0
            remaining == IntOf(job.total_samples) - c
        IN  /\ (c = 0 \/ nototal \/ elapsed <= 0) => eta = None
            /\ (c > 0 /\ ~nototal /\ elapsed > 0)
                  => /\ eta # None
                     /\ IF remaining <= 0 THEN RatEq(Val(eta), <<0, 1>>)
                        ELSE RatEq(Val(eta), <<remaining * elapsed, c>>)

\* The spec's case: completed 5, total 20, 50 s elapsed give 150 s.
C21_Witness ==
    /\ Polled
    /\ JobOf(1, 1).samples_completed = JInt(5)
    /\ JobOf(1, 1).total_samples = JInt(20)
    /\ JobOf(1, 1).started_at = Some(50)
    /\ JobOf(1, 1).finished_at = None
    /\ RatEq(Val(_estimate_remaining(JobOf(1, 1), 100)), <<150, 1>>)

\* C22 (as claimed): progress_percent is null exactly when the total is
\* unknown, and otherwise lies in [0, 100].
C22_PercentNullIffUnknown ==
    Polled => \A j \in JobsOf(cli.run_id) :
        LET job == JobOf(cli.run_id, j)
            percent == _snapshot_job(job).progress_percent
        IN  /\ percent = None <=> job.total_samples = None
            /\ percent # None => Val(percent) >= 0 /\ Val(percent) <= 10000

\* C22 (amended): progress_percent is null exactly when the total is unknown
\* or 0; otherwise it is completed / total * 100 clamped to [0, 100] and
\* rounded to two decimals (here: within half a hundredth of the exact value).
C22_Percent ==
    Polled => \A j \in JobsOf(cli.run_id) :
        LET job == JobOf(cli.run_id, j)
            percent == _snapshot_job(job).progress_percent
            c == IntOf(job.samples_completed)
            t == IntOf(job.total_samples)
            p == Val(percent)
            diff == p * t - 10000 * c
        IN  /\ percent = None <=> (job.total_samples = None \/ t = 0)
            /\ percent # None
                  => /\ p >= 0 /\ p <= 10000
                     /\ IF c * t < 0 THEN p = 0
                        ELSE IF (t > 0 /\ c > t) \/ (t < 0 /\ c < t) THEN p = 10000
                        ELSE 2 * (IF diff < 0 THEN 0 - diff ELSE diff)
                                <= (IF t < 0 THEN 0 - t ELSE t)

\* Polls of jobs at 1 of 3 (33.33), at more than the total (100.0) and at a
\* total of 0 (null) are all reachable; this one is 1 of 3.
C22_Witness ==
    /\ Polled
    /\ JobOf(1, 1).samples_completed = JInt(1)
    /\ JobOf(1, 1).total_samples = JInt(3)
    /\ _snapshot_job(JobOf(1, 1)).progress_percent = Some(3333)

\* ------------------------------------------------------------------ command model
\* _register_run has put a run in the registry, for any known task (named
\* directly, by alias or by default) and any options bag, and starts the job
\* of its one model.
CommandTasks == {None, Some("telecom_bench"), Some("teleqna"), Some("telelogs_bench")}

CommandOptions ==
    [difficulty : {None, JStr(""), JStr("full"), JStr("hard")},
     limit : {None, JStr(""), JInt(0), JInt(5)},
     max_connections : {None, JStr(""), JInt(8)},
     max_tokens : {None, JStr(""), JInt(256)},
     temperature : {None, JStr(""), JInt(0), JInt(1)}]

CommandInit ==
    /\ \E task \in CommandTasks, options \in CommandOptions :
          LET resolved == _resolve_task_name(RequestedTask(task))[2]
          IN  /\ RUNS_REGISTRY =
                   <<[run_id |-> 1, task |-> resolved, created_at |-> _now,
                      options |-> options, models |-> <<>>]>>
              /\ reg = [pc |-> "loop", run_id |-> 1, task |-> resolved,
                        models |-> <<"m">>, i |-> 1, job_id |-> 0,
                        response |-> None]
    /\ REGISTRY_LOCK = NoThread
    /\ sup = [j \in JobIds |-> NewSup]
    /\ proc = [j \in JobIds |-> NewProc]
    /\ cli = IdleCli
    /\ cancelled_running = {}
    /\ stream = NoStream

CommandNext ==
    \/ RegJobLock
    \/ RegJobBody
    \/ RegStartThread
    \/ RegSnapLock
    \/ RegSnapBody

SpecCommand == CommandInit /\ [][CommandNext]_vars

Given(v) == v # None /\ v # JStr("")
Opt(present, flag, value) == IF present THEN <<flag, value>> ELSE <<>>
BaseCommand(task, model) ==
    <<"inspect", "eval", TaskFile(task), "--display", "log", "--log-level", "info",
      "--log-level-transcript", "info", "--log-format", "json", "--model", model>>
NoEmptyArgument(cmd) == \A i \in 1..Len(cmd) : cmd[i] # ""
Started(j) == sup[j].command # <<>>

\* C23 (as claimed): the command is the fixed prefix followed, in order, by the
\* flags of difficulty, limit, max_connections, max_tokens and temperature,
\* each present if and only if its option is neither absent nor empty; no
\* argument is the empty string.
C23_FlagIffGiven ==
    \A j \in JobIds : Started(j) =>
        LET run == RUNS_REGISTRY[sup[j].run_id]
            o == run.options
        IN  /\ sup[j].command =
                  BaseCommand(run.task, run.models[j].model)
                    \o Opt(Given(o.difficulty), "-T", "difficulty=" \o str(o.difficulty))
                    \o Opt(Given(o.limit), "--limit", str(o.limit))
                    \o Opt(Given(o.max_connections), "--max-connections",
                           str(o.max_connections))
                    \o Opt(Given(o.max_tokens), "--max-tokens", str(o.max_tokens))
                    \o Opt(Given(o.temperature), "--temperature", str(o.temperature))
            /\ NoEmptyArgument(sup[j].command)

\* C23 (amended): the command is the fixed prefix followed, in order, by at
\* most one flag each: difficulty if given, not 'full' and the task is
\* telemath; limit, max_connections and max_tokens if given and not 0;
\* temperature if given (0 included); no argument is the empty string.
C23_Command ==
    \A j \in JobIds : Started(j) =>
        LET run == RUNS_REGISTRY[sup[j].run_id]
            o == run.options
        IN  /\ sup[j].command =
                  BaseCommand(run.task, run.models[j].model)
                    \o Opt(/\ Given(o.difficulty)
                           /\ o.difficulty # JStr("full")
                           /\ run.task = "telemath",
                           "-T", "difficulty=" \o str(o.difficulty))
                    \o Opt(Given(o.limit) /\ o.limit # JInt(0),
                           "--limit", str(o.limit))
                    \o Opt(Given(o.max_connections) /\ o.max_connections # JInt(0),
                           "--max-connections", str(o.max_connections))
                    \o Opt(Given(o.max_tokens) /\ o.max_tokens # JInt(0),
                           "--max-tokens", str(o.max_tokens))
                    \o Opt(Given(o.temperature), "--temperature", str(o.temperature))
            /\ NoEmptyArgument(sup[j].command)

\* A telemath job started with every option given, the temperature being 0:
\* five flags follow the prefix.
C23_Witness ==
    /\ Started(1)
    /\ RUNS_REGISTRY[1].task = "telemath"
    /\ RUNS_REGISTRY[1].options =
          [difficulty |-> JStr("hard"), limit |-> JInt(5), max_connections |-> JInt(8),
           max_tokens |-> JInt(256), temperature |-> JInt(0)]
    /\ SubSeq(sup[1].command, 14, 23) =
          <<"-T", "difficulty=hard", "--limit", "5", "--max-connections", "8",
            "--max-tokens", "256", "--temperature", "0">>

\* C24: the command holds '-T difficulty=<d>' if and only if the resolved task
\* is telemath, the difficulty option is not empty and it is not 'full'.
HasDifficulty(cmd) ==
    \E i \in 1..(Len(cmd) - 1) :
        /\ cmd[i] = "-T"
        /\ \E d \in {"full", "hard", ""} : cmd[i + 1] = "difficulty=" \o d

C24_DifficultyFlag ==
    \A j \in JobIds : Started(j) =>
        LET run == RUNS_REGISTRY[sup[j].run_id]
            d == run.options.difficulty
        IN  HasDifficulty(sup[j].command)
               <=> (run.task = "telemath" /\ Given(d) /\ d # JStr("full"))

\* A teleqna job started with difficulty 'hard': no difficulty parameter.
C24_Witness ==
    /\ Started(1)
    /\ RUNS_REGISTRY[1].task = "teleqna"
    /\ RUNS_REGISTRY[1].options.difficulty = JStr("hard")
    /\ ~HasDifficulty(sup[1].command)

====
